---- MODULE Spec2Model ----
(***************************************************************************)
(* State-machine model of the FPGA NPU PCIe driver                         *)
(* (software/driver/fpga_npu_driver.c) and of the parts of the user-space  *)
(* library (software/userspace/fpga_npu_lib.c) that call into it.          *)
(*                                                                         *)
(* The driver state of struct fpga_npu_dev is kept in variables that carry *)
(* the names of its fields.  Every file operation is cut into steps at the *)
(* points where another thread, the interrupt handler or the hardware can  *)
(* interleave: taking and dropping a lock, going to sleep, waking up.      *)
(***************************************************************************)
EXTENDS Integers, Sequences, FiniteSets, TLC

\* ---------------------------------------------------------------- bounds
NCallers == 3            \* processes that call open() on the device node
NThreads == 2            \* threads that share the open session
MaxBufs == 2             \* struct npu_dma_buf objects allocated in one run
MaxOps == 2              \* DMA transfers / instructions started in one run
MaxMapCalls == 2         \* npu_buffer_map calls a thread makes in a row on a buffer

\* ------------------------------------------------------- errno constants
ENOENT == 2
ENOMEM == 12
EBUSY == 16
ENODEV == 19
EINVAL == 22
ENOTTY == 25
ETIMEDOUT == 110
ERESTARTSYS == 512

\* ----------------------------------------------------- program constants
NPU_MIN_BUFFER_SIZE == 4096
NPU_MAX_BUFFER_SIZE == 16777216
NPU_DMA_FLAG_BLOCKING == 1
NPU_INST_FLAG_HIGH_PRIORITY == 2
NPU_INST_FLAG_PROFILE == 4
NPU_OP_MATMUL == 6
FPGA_NPU_MAGIC == 78
NPU_IOCTL_WAIT_COMPLETION == 1074023938
NPU_SUCCESS == 0
NPU_ERROR_DEVICE == -2
NPU_ERROR_TIMEOUT == -4
NPU_ERROR_INVALID == -5
NPU_ERROR_MEMORY == -3
MAX_BUFFER_SIZE == 1048576
sizeof_npu_instruction_t == 36
EAGAIN == 11
EFAULT == 14
dma_size == 65536

VARIABLES
    \* struct fpga_npu_dev
    dev_mutex,           \* holder of dev->dev_mutex, 0 when free
    device_open,         \* dev->device_open
    dma_buffers,         \* dev->dma_buffers: the registry, a list of buffers
    next_buffer_id,      \* dev->next_buffer_id
    interrupt_received,  \* dev->interrupt_received
    \* struct npu_dma_buf, one per allocated buffer
    buffer_id,           \* buf->buffer_id
    buf_size,            \* buf->size
    ref_count,           \* buf->ref_count
    mem,                 \* backing memory: "none", "live" or "released"
    \* the device
    status,              \* REG_STATUS, the set of bits that are set
    reg,                 \* the other registers of the control BAR
    irq,                 \* the interrupt line is asserted
    perf_operations,     \* dev->perf_counters.counters[NPU_PERF_OPERATIONS]
    nops,                \* operations started on the hardware so far
    opState,             \* per started operation: where the hardware is with it
    opBuf,               \* per started operation: the buffer it reads or writes
    \* callers of open()/close()
    opc,                 \* position of each caller
    oret,                \* value returned by the caller's open()
    \* threads of the session
    pc,                  \* position of each thread
    arg,                 \* the argument structure of the thread's call
    ret,                 \* the local ret, and the returned value once idle
    lbuf,                \* the local buf pointer of npu_free/npu_dma_transfer
    wrote,               \* registers the thread's call has written
    myop,                \* the operation the thread started last
    irq_in_wait,         \* an interrupt was handled while the thread waited
    \* struct npu_context of the library, and the process's mappings
    managed_buffers,     \* ctx->managed_buffers: the slots that are not NULL
    total_allocated,     \* ctx->total_allocated
    active_buffers,      \* ctx->active_buffers
    buffer_offset,       \* ctx->buffer_offset
    ctx_buffer,          \* ctx->buffer: the tensors staged in it
    vma,                 \* dev->vma: the thread whose mapping was made last
    vm_target,           \* per thread: the memory its mapping refers to, as the
                         \* set of buffers whose pages it covers
    \* configuration and telemetry of struct fpga_npu_dev
    config,              \* dev->config
    thermal_info,        \* dev->thermal_info
    thermal_timer,       \* dev->thermal_timer is pending
    jiffies,             \* timer periods (5 s) elapsed since probe
    perf_cycles,         \* dev->perf_counters.counters[NPU_PERF_CYCLES]
    \* fpga_npu_probe
    probe_pc,            \* the step or error label fpga_npu_probe is at
    acquired,            \* what probe has acquired, in the order of acquisition
    released,            \* what probe has released, in the order of release
    \* library: profiling
    profiling_session    \* the static profiling_session: active and handle

openVars == <<dev_mutex, device_open, opc, oret>>
bufVars == <<dma_buffers, next_buffer_id, buffer_id, buf_size, ref_count, mem>>
hwVars == <<status, reg, irq, nops, opState, opBuf>>
thVars == <<pc, arg, ret, lbuf, wrote, myop, irq_in_wait>>
libVars == <<managed_buffers, total_allocated, active_buffers, buffer_offset,
             ctx_buffer, vma, vm_target>>
probeVars == <<probe_pc, acquired, released>>
monVars == <<config, thermal_info, thermal_timer, jiffies, perf_cycles, probeVars,
            profiling_session>>
vars == <<openVars, bufVars, hwVars, thVars, interrupt_received, perf_operations,
          libVars, monVars>>

Callers == 1..NCallers
Threads == 1..NThreads
Bufs == 1..MaxBufs
OpIds == 1..MaxOps

StatusBits == {"READY", "BUSY", "ERROR", "DONE"}
RegNames == {"CONTROL", "DATA_ADDR", "DATA_SIZE",
             "DMA_CTRL", "DMA_SRC", "DMA_DST", "DMA_SIZE",
             "CONFIG", "PERF_CTRL", "PERF_CYCLES", "PERF_OPS", "TEMPERATURE",
             "POWER"}
CTRL_ENABLE == 1
CTRL_RESET == 2
CTRL_START == 4
WriteLens == {36}

NoArg == [call |-> "none"]
\* dev->dma_buffer, the buffer of the legacy path, among the memory objects:
\* the allocated buffers are 1, 2, ...
dev_dma_buffer == 0
MAX_MANAGED_BUFFERS == 64
Slots == 0..(MAX_MANAGED_BUFFERS - 1)

\* ================================================================== init
\* the device after fpga_npu_probe: kzalloc'ed structure, empty registry,
\* next_buffer_id = 1, reset pulsed and CTRL_ENABLE written
DefaultConfig ==
    [pe_enable_mask |-> 65535, clock_frequency |-> 300, power_mode |-> 0,
     cache_policy |-> 1]
NoThermalInfo ==
    [temperature_celsius |-> 0, power_consumption_mw |-> 0, thermal_state |-> 0]

\* timer_setup leaves the timer initialised and not pending
InitHwTimer(pending) ==
    /\ config = DefaultConfig
    /\ thermal_info = NoThermalInfo
    /\ thermal_timer = pending
    /\ jiffies = 0
    /\ perf_cycles = [hi |-> 0, lo |-> 0]
    /\ profiling_session = [active |-> FALSE, handle |-> 0]

InitHwRegs ==
    /\ dev_mutex = 0
    /\ interrupt_received = FALSE
    /\ perf_operations = 0
    /\ status = {"READY"}
    /\ reg = [r \in RegNames |-> IF r = "CONTROL" THEN CTRL_ENABLE ELSE 0]
    /\ irq = FALSE
    /\ nops = 0
    /\ opState = [k \in OpIds |-> "none"]
    /\ opBuf = [k \in OpIds |-> 0]

\* the steps of fpga_npu_probe: what is acquired, or done, one after the
\* other, with the device structure set up right after its kzalloc
ProbeSteps ==
    <<"kzalloc", "pci_enable_device", "pci_request_regions", "control_bar",
      "data_bar", "dma_mask", "dma_buffer", "request_irq", "reset", "enable",
      "alloc_chrdev_region", "cdev_add", "class_create", "device_create">>
\* the steps that acquire nothing
NoResource == {"dma_mask", "reset", "enable"}
RECURSIVE Resources(_)
Resources(steps) ==
    IF steps = <<>> THEN <<>>
    ELSE (IF Head(steps) \in NoResource THEN <<>> ELSE <<Head(steps)>>)
             \o Resources(Tail(steps))

\* fpga_npu_probe has returned 0
Probed ==
    /\ probe_pc = "ok"
    /\ acquired = Resources(ProbeSteps)
    /\ released = <<>>

InitHw == InitHwRegs /\ InitHwTimer(FALSE) /\ Probed

InitDevAt(id) ==
    /\ InitHw
    /\ dma_buffers = <<>>
    /\ next_buffer_id = id
    /\ buffer_id = [b \in Bufs |-> 0]
    /\ buf_size = [b \in Bufs |-> 0]
    /\ ref_count = [b \in Bufs |-> 0]
    /\ mem = [b \in Bufs |-> "none"]

\* the library context after npu_init, and no mapping made yet
InitLib ==
    /\ managed_buffers = [i \in {} |-> 0]
    /\ total_allocated = 0
    /\ active_buffers = 0
    /\ buffer_offset = 0
    /\ ctx_buffer = <<>>
    /\ vma = 0
    /\ vm_target = [t \in Threads |-> {}]

InitDev == InitDevAt(1)

InitThreads ==
    /\ InitLib
    /\ pc = [t \in Threads |-> "idle"]
    /\ arg = [t \in Threads |-> NoArg]
    /\ ret = [t \in Threads |-> 0]
    /\ lbuf = [t \in Threads |-> 0]
    /\ wrote = [t \in Threads |-> {}]
    /\ myop = [t \in Threads |-> 0]
    /\ irq_in_wait = [t \in Threads |-> FALSE]

\* no session is open yet; the callers are about to call open()
InitOpen ==
    /\ InitDev
    /\ InitThreads
    /\ device_open = FALSE
    /\ opc = [p \in Callers |-> "idle"]
    /\ oret = [p \in Callers |-> 0]

\* caller 1 has opened the session whose threads issue the calls below
Init ==
    /\ InitDev
    /\ InitThreads
    /\ device_open = TRUE
    /\ opc = [p \in Callers |-> IF p = 1 THEN "returned" ELSE "idle"]
    /\ oret = [p \in Callers |-> 0]

\* ======================================================== open / release
OpenFrame == UNCHANGED <<bufVars, hwVars, thVars, interrupt_received, perf_operations,
                         libVars, monVars>>

\* open(2) enters fpga_npu_open
fpga_npu_open_call(p) ==
    /\ opc[p] = "idle"
    /\ opc' = [opc EXCEPT ![p] = "open_lock"]
    /\ UNCHANGED <<dev_mutex, device_open, oret>>
    /\ OpenFrame

\* mutex_lock_interruptible(&npu_device->dev_mutex) takes the free mutex
fpga_npu_open_lock(p) ==
    /\ opc[p] = "open_lock"
    /\ dev_mutex = 0
    /\ dev_mutex' = p
    /\ opc' = [opc EXCEPT ![p] = "open_locked"]
    /\ UNCHANGED <<device_open, oret>>
    /\ OpenFrame

\* mutex_lock_interruptible: a signal arrives while the caller sleeps on the
\* held mutex; fpga_npu_open returns -ERESTARTSYS
fpga_npu_open_interrupted(p) ==
    /\ opc[p] = "open_lock"
    /\ dev_mutex # 0
    /\ opc' = [opc EXCEPT ![p] = "returned"]
    /\ oret' = [oret EXCEPT ![p] = -ERESTARTSYS]
    /\ UNCHANGED <<dev_mutex, device_open>>
    /\ OpenFrame

\* the test of device_open: TRUE when the open is refused
device_open_test_never(isOpen) == FALSE
device_open_test(isOpen) == isOpen

\* the body under the mutex: the device_open test, then mutex_unlock
fpga_npu_open_body(p) ==
    /\ opc[p] = "open_locked"
    /\ dev_mutex = p
    /\ IF device_open_test(device_open)
         THEN /\ oret' = [oret EXCEPT ![p] = -EBUSY]
              /\ UNCHANGED device_open
         ELSE /\ device_open' = TRUE
              /\ oret' = [oret EXCEPT ![p] = 0]
    /\ dev_mutex' = 0
    /\ opc' = [opc EXCEPT ![p] = "returned"]
    /\ OpenFrame

\* close(2) of the session's file: fpga_npu_release takes the mutex
fpga_npu_release_lock(p) ==
    /\ opc[p] = "returned"
    /\ oret[p] = 0
    /\ dev_mutex = 0
    /\ dev_mutex' = p
    /\ opc' = [opc EXCEPT ![p] = "rel_locked"]
    /\ UNCHANGED <<device_open, oret>>
    /\ OpenFrame

fpga_npu_release_body(p) ==
    /\ opc[p] = "rel_locked"
    /\ dev_mutex = p
    /\ device_open' = FALSE
    /\ dev_mutex' = 0
    /\ opc' = [opc EXCEPT ![p] = "closed"]
    /\ UNCHANGED oret
    /\ OpenFrame

NextOpen ==
    \E p \in Callers :
        \/ fpga_npu_open_call(p)
        \/ fpga_npu_open_lock(p)
        \/ fpga_npu_open_interrupted(p)
        \/ fpga_npu_open_body(p)
        \/ fpga_npu_release_lock(p)
        \/ fpga_npu_release_body(p)

SpecOpen == InitOpen /\ [][NextOpen]_vars

\* ============================================================== hardware
\* The accelerator is not part of the driver sources.  It is modelled by the
\* register protocol the driver relies on: a start makes the device BUSY, a
\* completion raises DONE (and ERROR on a fault) and asserts the interrupt
\* line, and STATUS is write-1-to-clear for the sticky bits DONE and ERROR.
Pending(k) == opState[k] \in {"running", "done", "err", "err_done"}
Running == {k \in OpIds : opState[k] = "running"}

HwStart(b) ==
    /\ nops' = nops + 1
    /\ opState' = [opState EXCEPT ![nops + 1] = "running"]
    /\ opBuf' = [opBuf EXCEPT ![nops + 1] = b]
    /\ status' = (status \ {"READY"}) \cup {"BUSY"}

HwLevel(st, left) ==
    IF left = {} THEN (st \ {"BUSY"}) \cup {"READY"} ELSE st

\* the operation finishes: DONE is raised and the interrupt line asserted
HwComplete(k) ==
    /\ opState[k] = "running"
    /\ opState' = [opState EXCEPT ![k] = "done"]
    /\ status' = HwLevel(status, Running \ {k}) \cup {"DONE"}
    /\ irq' = TRUE
    /\ UNCHANGED <<reg, nops, opBuf>>
    /\ UNCHANGED <<openVars, bufVars, thVars, interrupt_received, perf_operations, monVars>>
    /\ UNCHANGED libVars

\* the operation faults: ERROR is raised, with DONE or without it
HwFault(k, withDone) ==
    /\ opState[k] = "running"
    /\ opState' = [opState EXCEPT ![k] = IF withDone THEN "err_done" ELSE "err"]
    /\ status' = HwLevel(status, Running \ {k}) \cup
                     (IF withDone THEN {"ERROR", "DONE"} ELSE {"ERROR"})
    /\ irq' = TRUE
    /\ UNCHANGED <<reg, nops, opBuf>>
    /\ UNCHANGED <<openVars, bufVars, thVars, interrupt_received, perf_operations, monVars>>
    /\ UNCHANGED libVars

\* another device on the shared line (IRQF_SHARED) interrupts
SharedIrq ==
    /\ ~irq
    /\ irq' = TRUE
    /\ UNCHANGED <<status, reg, nops, opState, opBuf>>
    /\ UNCHANGED <<openVars, bufVars, thVars, interrupt_received, perf_operations, monVars>>
    /\ UNCHANGED libVars

\* The device's reaction to CTRL_RESET, by the register protocol: whatever
\* is running is abandoned without a completion, and the device is READY.
HwReset ==
    /\ opState' = [k \in OpIds |-> IF opState[k] = "running" THEN "aborted"
                                   ELSE opState[k]]
    /\ status' = {"READY"}

StatusW1C(st, written) == st \ (written \cap {"DONE", "ERROR"})

\* ===================================================== interrupt handler
InWait(t) == pc[t] \in {"wait_sleep", "wait_clear", "xfer_sleep", "xfer_clear"}

irq_not_ours_never(st) == FALSE
\* the handler's test "not our interrupt"
irq_not_ours(st) == "DONE" \notin st

fpga_npu_interrupt ==
    /\ irq
    /\ irq' = FALSE
    /\ IF irq_not_ours(status)
         THEN \* IRQ_NONE
              UNCHANGED <<status, interrupt_received, opState, irq_in_wait>>
         ELSE \* iowrite32(status, REG_STATUS); flag; wake_up_interruptible
              /\ status' = StatusW1C(status, status)
              /\ interrupt_received' = TRUE
              /\ opState' = [k \in OpIds |->
                    CASE opState[k] = "done" -> "observed"
                      [] opState[k] = "err_done" -> "observed_err"
                      [] opState[k] = "err" /\ "DONE" \in status -> "observed_err"
                      [] OTHER -> opState[k]]
              /\ irq_in_wait' = [t \in Threads |-> irq_in_wait[t] \/ InWait(t)]
    /\ UNCHANGED <<reg, nops, opBuf>>
    /\ UNCHANGED <<openVars, bufVars, pc, arg, ret, lbuf, wrote, myop, perf_operations, monVars>>
    /\ UNCHANGED libVars

\* ============================================================ wait_event
\* What wait_event_interruptible_timeout (timeout > 0) and
\* wait_event_interruptible (timeout = 0) can return: the condition is tested
\* first; with the condition false the sleep ends by the timeout (0) or by a
\* signal (-ERESTARTSYS).
wait_event_results_polled(timeout, cond) ==
    IF cond \/ "DONE" \in status
      THEN {IF timeout > 0 THEN 1 ELSE 0}
      ELSE {-ERESTARTSYS} \cup (IF timeout > 0 THEN {0} ELSE {})
wait_event_results(timeout, cond) ==
    IF cond
      THEN {IF timeout > 0 THEN 1 ELSE 0}
      ELSE {-ERESTARTSYS} \cup (IF timeout > 0 THEN {0} ELSE {})

\* the driver's handling of the value the sleep returned, starting from the
\* ret = 0 the function was entered with
wait_ret(timeout, r) ==
    IF timeout > 0
      THEN (IF r = 0 THEN -ETIMEDOUT ELSE IF r > 0 THEN 0 ELSE r)
      ELSE 0

\* ======================================================== buffer manager
SessFrame == UNCHANGED <<openVars, libVars>>
\* a u32 is held as the 32-bit integer with the same bit pattern, so that
\* 0xFFFFFFFF is -1; u32_inc is v++ with its wrap-around and u32_lt the
\* unsigned comparison
u32_inc(v) == IF v = 2147483647 THEN -2147483647 - 1 ELSE v + 1
u32_lt(a, b) == IF (a < 0) = (b < 0) THEN a < b ELSE b < 0

\* buffers allocated so far, and the one kzalloc hands out next
nbufs == Cardinality({b \in Bufs : mem[b] # "none"})
\* the buffer ids a caller passes: those handed out so far and, while another
\* buffer can be allocated, the one that will be handed out next
BufIds == {buffer_id[b] : b \in 1..nbufs} \cup
              (IF nbufs < MaxBufs THEN {next_buffer_id} ELSE {})
\* list_for_each_entry with the test buf->buffer_id == id: the first match,
\* 0 (NULL) when there is none
Lookup(id) ==
    LET hits == {i \in 1..Len(dma_buffers) : buffer_id[dma_buffers[i]] = id}
    IN IF hits = {} THEN 0
       ELSE dma_buffers[CHOOSE i \in hits : \A j \in hits : i <= j]
InRegistry_always(id) == TRUE
InRegistry(id) == Lookup(id) # 0
ListDel_keep(list, b) == list
ListDel(list, b) == SelectSeq(list, LAMBDA x : x # b)
Return(t, r) ==
    /\ pc' = [pc EXCEPT ![t] = "idle"]
    /\ ret' = [ret EXCEPT ![t] = r]
    /\ lbuf' = [lbuf EXCEPT ![t] = 0]

AllocSizes == {NPU_MIN_BUFFER_SIZE - 1, NPU_MIN_BUFFER_SIZE}

\* npu_alloc_dma_buffer: the size check, the allocation (kzalloc and
\* dma_alloc_coherent succeed or fail), the insertion into the registry under
\* dma_lock; first the value it returns, then what it does to the registry
npu_alloc_dma_buffer_ret(size, got) ==
    IF size < NPU_MIN_BUFFER_SIZE \/ size > NPU_MAX_BUFFER_SIZE THEN -EINVAL
    ELSE IF ~got THEN -ENOMEM
    ELSE 0

npu_alloc_dma_buffer_do(size, got) ==
    IF npu_alloc_dma_buffer_ret(size, got) # 0
      THEN UNCHANGED bufVars
      ELSE /\ buf_size' = [buf_size EXCEPT ![nbufs + 1] = size]
           /\ ref_count' = [ref_count EXCEPT ![nbufs + 1] = 1]
           /\ mem' = [mem EXCEPT ![nbufs + 1] = "live"]
           /\ buffer_id' = [buffer_id EXCEPT ![nbufs + 1] = next_buffer_id]
           /\ dma_buffers' = Append(dma_buffers, nbufs + 1)
           /\ next_buffer_id' = u32_inc(next_buffer_id)

npu_alloc_dma_buffer(t, size, got) ==
    /\ pc[t] = "idle"
    /\ nbufs < MaxBufs
    /\ arg' = [arg EXCEPT ![t] = [call |-> "alloc", size |-> size]]
    /\ npu_alloc_dma_buffer_do(size, got)
    /\ Return(t, npu_alloc_dma_buffer_ret(size, got))
    /\ UNCHANGED <<wrote, myop, irq_in_wait>>
    /\ UNCHANGED <<hwVars, interrupt_received, perf_operations, monVars>>
    /\ SessFrame

\* npu_free_dma_buffer, first half: the lookup and list_del under dma_lock
npu_free_dma_buffer_find(t) ==
    \E id \in BufIds :
    /\ pc[t] = "idle"
    /\ arg' = [arg EXCEPT ![t] = [call |-> "free", buffer_id |-> id]]
    /\ IF InRegistry(id)
         THEN /\ dma_buffers' = ListDel(dma_buffers, Lookup(id))
              /\ lbuf' = [lbuf EXCEPT ![t] = Lookup(id)]
              /\ pc' = [pc EXCEPT ![t] = "free_put"]
              /\ UNCHANGED ret
         ELSE /\ Return(t, -ENOENT)
              /\ UNCHANGED dma_buffers
    /\ UNCHANGED <<next_buffer_id, buffer_id, buf_size, ref_count, mem>>
    /\ UNCHANGED <<wrote, myop, irq_in_wait>>
    /\ UNCHANGED <<hwVars, interrupt_received, perf_operations, monVars>>
    /\ SessFrame

\* atomic_dec_and_test, given the decremented value
atomic_dec_and_test_always(n) == TRUE
atomic_dec_and_test(n) == n = 0

\* npu_free_dma_buffer, second half: drop the reference, release at zero
npu_free_dma_buffer_put(t) ==
    /\ pc[t] = "free_put"
    /\ LET b == lbuf[t] IN
         /\ ref_count' = [ref_count EXCEPT ![b] = ref_count[b] - 1]
         /\ mem' = [mem EXCEPT ![b] =
                IF atomic_dec_and_test(ref_count[b] - 1) THEN "released" ELSE mem[b]]
    /\ Return(t, 0)
    /\ UNCHANGED <<dma_buffers, next_buffer_id, buffer_id, buf_size>>
    /\ UNCHANGED <<arg, wrote, myop, irq_in_wait>>
    /\ UNCHANGED <<hwVars, interrupt_received, perf_operations, monVars>>
    /\ SessFrame

\* ========================================================== DMA transfer
\* the transfers the threads ask for: in range and out of range, non-blocking,
\* blocking without and with a timeout
\* A __u64 is held as its bit pattern read as a signed number: the values
\* from 2^63 on are the negative ones, 2^64 - n being -n.  Sums of the values
\* used here stay within 32 bits of 0 or of 2^64, where the sum of the bit
\* patterns is the bit pattern of the sum modulo 2^64.
u64_add(a, b) == a + b
u64_gt(a, b) == IF (a < 0) = (b < 0) THEN a > b ELSE a < 0

\* offset, flags and timeout_ms of the transfers
TransferShapes ==
    {<<0, 0, 0>>, <<0, NPU_DMA_FLAG_BLOCKING, 0>>, <<0, NPU_DMA_FLAG_BLOCKING, 10>>,
     <<NPU_MIN_BUFFER_SIZE, 0, 0>>}
Transfers ==
    {[call |-> "xfer", buffer_id |-> b, offset |-> s[1], size |-> NPU_MIN_BUFFER_SIZE,
      flags |-> s[2], timeout_ms |-> s[3], direction |-> 0, user_addr |-> 0] :
        b \in BufIds, s \in TransferShapes}

Blocking(x) == x.flags % 2 = 1
\* the (u32) cast of a register write: v modulo 2^32, taken on the two 16-bit
\* halves
u32(v) == (v % 65536) + 65536 * ((v \div 65536) % 65536)
dma_handle(b) == b * NPU_MAX_BUFFER_SIZE
Starting == Cardinality({t \in Threads : pc[t] \in {"xfer_setup"}})

\* npu_dma_transfer: the lookup under dma_lock, taking a reference
npu_dma_transfer_lookup(t, requests) ==
    \E x \in requests :
    /\ pc[t] = "idle"
    /\ nops + Starting < MaxOps
    /\ arg' = [arg EXCEPT ![t] = x]
    /\ wrote' = [wrote EXCEPT ![t] = {}]
    /\ IF InRegistry(x.buffer_id)
         THEN /\ ref_count' = [ref_count EXCEPT ![Lookup(x.buffer_id)] = @ + 1]
              /\ lbuf' = [lbuf EXCEPT ![t] = Lookup(x.buffer_id)]
              /\ pc' = [pc EXCEPT ![t] = "xfer_setup"]
              /\ ret' = [ret EXCEPT ![t] = 0]
         ELSE /\ Return(t, -ENOENT)
              /\ UNCHANGED ref_count
    /\ UNCHANGED <<dma_buffers, next_buffer_id, buffer_id, buf_size, mem>>
    /\ UNCHANGED <<myop, irq_in_wait>>
    /\ UNCHANGED <<hwVars, interrupt_received, perf_operations, monVars>>
    /\ SessFrame

npu_dma_transfer_find(t) == npu_dma_transfer_lookup(t, Transfers)

\* npu_dma_transfer: the bounds check, then the register writes that start
\* the transfer
npu_dma_transfer_setup(t) ==
    /\ pc[t] = "xfer_setup"
    /\ LET x == arg[t]
           b == lbuf[t]
       IN IF u64_gt(u64_add(x.offset, x.size), buf_size[b])
            THEN /\ ret' = [ret EXCEPT ![t] = -EINVAL]
                 /\ pc' = [pc EXCEPT ![t] = "xfer_out"]
                 /\ UNCHANGED <<hwVars, wrote, myop, irq_in_wait>>
            ELSE /\ reg' = [reg EXCEPT
                        !["DMA_SRC"] = u32(dma_handle(b) + x.offset),
                        !["DMA_DST"] = u32(x.user_addr),
                        !["DMA_SIZE"] = u32(x.size),
                        !["DMA_CTRL"] = u32(x.direction + x.flags * 256)]
                 /\ wrote' = [wrote EXCEPT ![t] =
                        {"DMA_SRC", "DMA_DST", "DMA_SIZE", "DMA_CTRL"}]
                 /\ HwStart(b)
                 /\ myop' = [myop EXCEPT ![t] = nops + 1]
                 /\ irq_in_wait' = [irq_in_wait EXCEPT ![t] = FALSE]
                 /\ pc' = [pc EXCEPT ![t] =
                        IF Blocking(x) THEN "xfer_sleep" ELSE "xfer_out"]
                 /\ UNCHANGED <<ret, irq>>
    /\ UNCHANGED <<arg, lbuf>>
    /\ UNCHANGED <<bufVars, interrupt_received, perf_operations, monVars>>
    /\ SessFrame

\* the blocking transfer's sleep ends
npu_dma_transfer_wake(t) ==
    /\ pc[t] = "xfer_sleep"
    /\ \E r \in wait_event_results(arg[t].timeout_ms, interrupt_received) :
           ret' = [ret EXCEPT ![t] = r]
    /\ pc' = [pc EXCEPT ![t] = "xfer_clear"]
    /\ UNCHANGED <<arg, lbuf, wrote, myop, irq_in_wait>>
    /\ UNCHANGED <<bufVars, hwVars, interrupt_received, perf_operations, monVars>>
    /\ SessFrame

\* the blocking transfer maps the result and clears the completion flag
npu_dma_transfer_clear(t) ==
    /\ pc[t] = "xfer_clear"
    /\ ret' = [ret EXCEPT ![t] = wait_ret(arg[t].timeout_ms, ret[t])]
    /\ interrupt_received' = FALSE
    /\ pc' = [pc EXCEPT ![t] = "xfer_out"]
    /\ UNCHANGED <<arg, lbuf, wrote, myop, irq_in_wait>>
    /\ UNCHANGED <<bufVars, hwVars, perf_operations, monVars>>
    /\ SessFrame

\* out: atomic_dec(&buf->ref_count); return ret
npu_dma_transfer_out(t) ==
    /\ pc[t] = "xfer_out"
    /\ ref_count' = [ref_count EXCEPT ![lbuf[t]] = @ - 1]
    /\ Return(t, ret[t])
    /\ UNCHANGED <<dma_buffers, next_buffer_id, buffer_id, buf_size, mem>>
    /\ UNCHANGED <<arg, wrote, myop, irq_in_wait>>
    /\ UNCHANGED <<hwVars, interrupt_received, perf_operations, monVars>>
    /\ SessFrame

NextBuf ==
    \/ \E t \in Threads, size \in AllocSizes, got \in BOOLEAN :
           npu_alloc_dma_buffer(t, size, got)
    \/ \E t \in Threads : npu_free_dma_buffer_find(t)
    \/ \E t \in Threads : npu_free_dma_buffer_put(t)
    \/ \E t \in Threads : npu_dma_transfer_find(t)
    \/ \E t \in Threads : npu_dma_transfer_setup(t)
    \/ \E t \in Threads : npu_dma_transfer_wake(t)
    \/ \E t \in Threads : npu_dma_transfer_clear(t)
    \/ \E t \in Threads : npu_dma_transfer_out(t)
    \/ \E k \in OpIds : HwComplete(k)
    \/ fpga_npu_interrupt

SpecBuf == Init /\ [][NextBuf]_vars

\* =================================================== instruction submit
\* the instructions the threads submit, as <<dst_addr, size, flags>>: one in
\* range and profiled, one whose destination lies beyond the largest buffer
\* the driver can hold
InstShapes ==
    {<<0, NPU_MIN_BUFFER_SIZE, NPU_INST_FLAG_PROFILE>>,
     <<NPU_MAX_BUFFER_SIZE, NPU_MIN_BUFFER_SIZE, NPU_INST_FLAG_HIGH_PRIORITY>>}
Instructions ==
    {[call |-> "exec", operation |-> NPU_OP_MATMUL, src1_addr |-> 0, src2_addr |-> 0,
      dst_addr |-> s[1], size |-> s[2], flags |-> s[3]] : s \in InstShapes}

HasFlag(flags, bit) == (flags \div bit) % 2 = 1

\* the 32-bit instruction word of npu_execute_instruction; the fields do not
\* overlap, so the bitwise or is a sum (operation codes are below 128)
instruction_word(inst) ==
    u32((inst.operation % 128) * 16777216 + (inst.src1_addr % 256) * 65536
        + (inst.src2_addr % 256) * 256 + (inst.dst_addr % 256))

\* npu_execute_instruction (NPU_IOCTL_EXECUTE_INSTRUCTION): pack, write
\* DATA_ADDR and DATA_SIZE, start, count the operation when profiled
npu_execute_instruction(t, inst) ==
    /\ pc[t] = "idle"
    /\ nops < MaxOps
    /\ arg' = [arg EXCEPT ![t] = inst]
    /\ reg' = [reg EXCEPT
           !["DATA_ADDR"] = instruction_word(inst),
           !["DATA_SIZE"] = inst.size,
           !["CONTROL"] = CTRL_ENABLE + CTRL_START +
                IF HasFlag(inst.flags, NPU_INST_FLAG_HIGH_PRIORITY) THEN 256 ELSE 0]
    /\ wrote' = [wrote EXCEPT ![t] = {"DATA_ADDR", "DATA_SIZE", "CONTROL"}]
    /\ HwStart(0)
    /\ perf_operations' = IF HasFlag(inst.flags, NPU_INST_FLAG_PROFILE)
                            THEN perf_operations + 1 ELSE perf_operations
    /\ UNCHANGED monVars
    /\ myop' = [myop EXCEPT ![t] = nops + 1]
    /\ Return(t, 0)
    /\ UNCHANGED <<irq, irq_in_wait>>
    /\ UNCHANGED <<bufVars, interrupt_received>>
    /\ SessFrame

\* fpga_npu_write (the legacy path, used by the library's
\* npu_execute_instruction): clip len, copy, write the registers, start
fpga_npu_write(t, len) ==
    /\ pc[t] = "idle"
    /\ nops < MaxOps
    /\ LET n == IF len > dma_size THEN dma_size ELSE len IN
         /\ arg' = [arg EXCEPT ![t] = [call |-> "write", len |-> len]]
         /\ reg' = [reg EXCEPT
                !["DATA_ADDR"] = u32(dma_handle(0)),
                !["DATA_SIZE"] = u32(n),
                !["CONTROL"] = CTRL_ENABLE + CTRL_START]
         /\ Return(t, n)
    /\ wrote' = [wrote EXCEPT ![t] = {"DATA_ADDR", "DATA_SIZE", "CONTROL"}]
    /\ HwStart(0)
    /\ myop' = [myop EXCEPT ![t] = nops + 1]
    /\ UNCHANGED <<irq, irq_in_wait, perf_operations, monVars>>
    /\ UNCHANGED <<bufVars, interrupt_received>>
    /\ SessFrame

\* ================================================== wait for completion
\* fpga_npu_ioctl's checks before the switch, and the case it selects
IOC_TYPE(cmd) == (cmd \div 256) % 256
fpga_npu_ioctl_case(cmd) ==
    IF IOC_TYPE(cmd) # FPGA_NPU_MAGIC THEN "ENOTTY"
    ELSE IF cmd = NPU_IOCTL_WAIT_COMPLETION THEN "WAIT_COMPLETION"
    ELSE "other"

\* NPU_IOCTL_WAIT_COMPLETION: copy_from_user(&timeout_ms), go to sleep
ioctl_wait_completion_enter(t, timeout_ms) ==
    /\ pc[t] = "idle"
    /\ fpga_npu_ioctl_case(NPU_IOCTL_WAIT_COMPLETION) = "WAIT_COMPLETION"
    /\ arg' = [arg EXCEPT ![t] = [call |-> "wait", timeout_ms |-> timeout_ms]]
    /\ ret' = [ret EXCEPT ![t] = 0]
    /\ wrote' = [wrote EXCEPT ![t] = {}]
    /\ irq_in_wait' = [irq_in_wait EXCEPT ![t] = FALSE]
    /\ pc' = [pc EXCEPT ![t] = "wait_sleep"]
    /\ UNCHANGED <<lbuf, myop>>
    /\ UNCHANGED <<bufVars, hwVars, perf_operations, interrupt_received, monVars>>
    /\ SessFrame

\* wait_event_interruptible[_timeout] returns
ioctl_wait_completion_wake(t) ==
    /\ pc[t] = "wait_sleep"
    /\ \E r \in wait_event_results(arg[t].timeout_ms, interrupt_received) :
           ret' = [ret EXCEPT ![t] = r]
    /\ pc' = [pc EXCEPT ![t] = "wait_clear"]
    /\ UNCHANGED <<arg, lbuf, wrote, myop, irq_in_wait>>
    /\ UNCHANGED <<bufVars, hwVars, perf_operations, interrupt_received, monVars>>
    /\ SessFrame

\* a wait that cancels what it waited for when the time is up
ioctl_wait_completion_clear_cancel(t) ==
    /\ pc[t] = "wait_clear"
    /\ interrupt_received' = FALSE
    /\ Return(t, wait_ret(arg[t].timeout_ms, ret[t]))
    /\ IF wait_ret(arg[t].timeout_ms, ret[t]) = -ETIMEDOUT
         THEN /\ reg' = [reg EXCEPT !["CONTROL"] = CTRL_RESET]
              /\ wrote' = [wrote EXCEPT ![t] = {"CONTROL"}]
              /\ HwReset
              /\ UNCHANGED <<irq, nops, opBuf>>
         ELSE UNCHANGED <<hwVars, wrote>>
    /\ UNCHANGED <<arg, myop, irq_in_wait>>
    /\ UNCHANGED <<bufVars, perf_operations, monVars>>
    /\ SessFrame

\* the result is mapped, dev->interrupt_received = false, the ioctl returns
ioctl_wait_completion_clear(t) ==
    /\ pc[t] = "wait_clear"
    /\ interrupt_received' = FALSE
    /\ Return(t, wait_ret(arg[t].timeout_ms, ret[t]))
    /\ UNCHANGED <<arg, wrote, myop, irq_in_wait>>
    /\ UNCHANGED <<bufVars, hwVars, perf_operations, monVars>>
    /\ SessFrame

\* the library's npu_wait_completion: ioctl(ctx->fd, 1, 0), any negative
\* result becoming NPU_ERROR_DEVICE
lib_wait_cmd == 1
lib_wait_arg == 0
npu_wait_completion(t, timeout_ms) ==
    /\ pc[t] = "idle"
    /\ arg' = [arg EXCEPT ![t] =
           [call |-> "npu_wait_completion", timeout_ms |-> timeout_ms,
            cmd |-> lib_wait_cmd, ioctl_arg |-> lib_wait_arg]]
    /\ LET r == CASE fpga_npu_ioctl_case(lib_wait_cmd) = "ENOTTY" -> -ENOTTY
                  [] fpga_npu_ioctl_case(lib_wait_cmd) = "WAIT_COMPLETION" -> -EFAULT
                  [] OTHER -> -ENOTTY
       IN Return(t, IF r < 0 THEN NPU_ERROR_DEVICE ELSE NPU_SUCCESS)
    /\ wrote' = [wrote EXCEPT ![t] = {}]
    /\ UNCHANGED <<myop, irq_in_wait>>
    /\ UNCHANGED <<bufVars, hwVars, perf_operations, interrupt_received, monVars>>
    /\ SessFrame

Next ==
    \/ \E t \in Threads, inst \in Instructions : npu_execute_instruction(t, inst)
    \/ \E t \in Threads, len \in WriteLens : fpga_npu_write(t, len)
    \/ \E t \in Threads, timeout_ms \in {0, 10} : ioctl_wait_completion_enter(t, timeout_ms)
    \/ \E t \in Threads : ioctl_wait_completion_wake(t)
    \/ \E t \in Threads : ioctl_wait_completion_clear(t)
    \/ \E t \in Threads, timeout_ms \in {0, 10} : npu_wait_completion(t, timeout_ms)
    \/ \E k \in OpIds : HwComplete(k)
    \/ \E k \in OpIds, withDone \in BOOLEAN : HwFault(k, withDone)
    \/ SharedIrq
    \/ fpga_npu_interrupt

Spec == Init /\ [][Next]_vars

\* ================================================================ claims

\* ---- C3 ---------------------------------------------------------------
Sessions == {p \in Callers : \/ opc[p] = "returned" /\ oret[p] = 0
                             \/ opc[p] = "rel_locked"}
AllOpensReturned == \A p \in Callers : opc[p] = "returned"

\* C3 as stated: when all N concurrent open calls have returned, exactly one
\* returned 0 and each of the other N-1 returned -EBUSY; at most one session
\* is open in every state.
C3_Original ==
    /\ Cardinality(Sessions) <= 1
    /\ AllOpensReturned =>
          /\ Cardinality({p \in Callers : oret[p] = 0}) = 1
          /\ \A p \in Callers : oret[p] \in {0, -EBUSY}

\* C3 amended: when all N concurrent open calls have returned, exactly one
\* returned 0 and each of the others returned -EBUSY or, when a signal
\* interrupted its sleep on the device mutex, -ERESTARTSYS; at most one
\* session is open in every state.
C3_OneSession ==
    /\ Cardinality(Sessions) <= 1
    /\ AllOpensReturned =>
          /\ Cardinality({p \in Callers : oret[p] = 0}) = 1
          /\ \A p \in Callers : oret[p] \in {0, -EBUSY, -ERESTARTSYS}

C3_Witness ==
    /\ AllOpensReturned
    /\ \E p \in Callers : oret[p] = 0
    /\ \E p \in Callers : oret[p] = -EBUSY
    /\ \E p \in Callers : oret[p] = -ERESTARTSYS

\* ---- C1 ---------------------------------------------------------------
\* C1: a buffer's backing memory is not released while a transfer that was
\* started on it is still pending on the hardware, its completion not yet
\* observed by the interrupt handler.
C1_NoReleaseInFlight ==
    \A b \in Bufs : mem[b] = "released" =>
        \A k \in OpIds : opBuf[k] = b => ~Pending(k)

\* ---- C2 ---------------------------------------------------------------
\* C2: a buffer whose memory has been released has reference count zero, and
\* the release happens in the step that takes the count from one to zero.
C2_ReleasedOnlyAtZero ==
    [][\A b \in Bufs :
          /\ mem'[b] = "released" => ref_count'[b] = 0
          /\ (mem[b] # "released" /\ mem'[b] = "released") => ref_count[b] = 1
      ]_vars

\* a buffer was released after a transfer had held a reference to it
C2_Witness ==
    \E b \in Bufs :
        /\ mem[b] = "released"
        /\ \E k \in OpIds : opBuf[k] = b

\* ---- C4 ---------------------------------------------------------------
\* an operand range that ends beyond the largest buffer the driver can hold
\* exceeds the buffer the instruction refers to, whichever that is
OutOfRange(inst) ==
    \/ inst.src1_addr + inst.size > NPU_MAX_BUFFER_SIZE
    \/ inst.src2_addr + inst.size > NPU_MAX_BUFFER_SIZE
    \/ inst.dst_addr + inst.size > NPU_MAX_BUFFER_SIZE
Returned(t, call) == pc[t] = "idle" /\ arg[t].call = call

\* C4: an instruction with an operand range that exceeds its buffer is
\* rejected with -EINVAL and the call writes no register.
C4_Original ==
    \A t \in Threads :
        (Returned(t, "exec") /\ OutOfRange(arg[t])) =>
            (ret[t] = -EINVAL /\ wrote[t] = {})

\* ---- C5 ---------------------------------------------------------------
Observed(k) == opState[k] \in {"observed", "observed_err"}

\* C5: a wait with timeout 0 issued by the thread that submitted an
\* instruction returns 0 only when the interrupt handler has observed DONE
\* for that instruction.
C5_Original ==
    \A t \in Threads :
        (Returned(t, "wait") /\ arg[t].timeout_ms = 0 /\ myop[t] # 0 /\ ret[t] = 0)
            => Observed(myop[t])

\* ---- C6 ---------------------------------------------------------------
\* C6: a wait with a positive timeout during which no completion interrupt
\* was handled, the instruction still running and STATUS still BUSY, does not
\* return success: it returns -ETIMEDOUT (or -ERESTARTSYS when a signal cut
\* the sleep short before the bound).
C6_Original ==
    \A t \in Threads :
        (/\ Returned(t, "wait") /\ arg[t].timeout_ms > 0
         /\ myop[t] # 0 /\ opState[myop[t]] = "running" /\ "BUSY" \in status
         /\ ~irq_in_wait[t])
            => ret[t] \in {-ETIMEDOUT, -ERESTARTSYS}

\* ---- C7 ---------------------------------------------------------------
\* C7: npu_wait_completion issues the driver's NPU_IOCTL_WAIT_COMPLETION
\* request, returns NPU_SUCCESS only when the completion of the submitted
\* instruction was observed, and returns NPU_ERROR_TIMEOUT when it gives up
\* on an instruction that is still running.
C7_Original ==
    \A t \in Threads :
        Returned(t, "npu_wait_completion") =>
            /\ arg[t].cmd = NPU_IOCTL_WAIT_COMPLETION
            /\ (myop[t] # 0 /\ ret[t] = NPU_SUCCESS) => Observed(myop[t])
            /\ (myop[t] # 0 /\ opState[myop[t]] = "running" /\ arg[t].timeout_ms > 0)
                   => ret[t] = NPU_ERROR_TIMEOUT

\* ---- C8 ---------------------------------------------------------------
\* C8 (the window after a timeout): a wait whose sleep ended by its timeout
\* does not discard a completion that was signalled after it woke; its last
\* step leaves a set completion flag set for the next waiter.
C8_Original ==
    [][\A t \in Threads :
          (/\ pc[t] \in {"wait_clear", "xfer_clear"} /\ pc'[t] # pc[t]
           /\ arg[t].timeout_ms > 0 /\ ret[t] = 0
           /\ interrupt_received)
              => interrupt_received'
      ]_vars

\* ---- C9 ---------------------------------------------------------------
\* the interrupt handler has run since the hardware raised ERROR for k
ErrorHandled(k) ==
    \/ opState[k] = "observed_err"
    \/ opState[k] = "err" /\ ~irq

\* C9: once the interrupt handler has run on the ERROR of the instruction a
\* thread waits for with wait(0), the waiter is woken (the completion flag is
\* set while it still sleeps) and its wait reports the failure.
C9_Original ==
    \A t \in Threads :
        (/\ arg[t].call = "wait" /\ arg[t].timeout_ms = 0
         /\ myop[t] # 0 /\ ErrorHandled(myop[t]))
            => /\ pc[t] = "wait_sleep" => interrupt_received
               /\ pc[t] = "idle" => ret[t] < 0

\* ---- C10 --------------------------------------------------------------
\* C10: a wait that was woken by the completion flag and returns after the
\* completion interrupt of the thread's instruction was handled with ERROR set
\* in STATUS does not return 0.
C10_Original ==
    [][\A t \in Threads :
          (/\ pc[t] = "wait_clear" /\ pc'[t] = "idle"
           /\ ret[t] \in wait_event_results(arg[t].timeout_ms, TRUE)
           /\ myop[t] # 0 /\ opState[myop[t]] = "observed_err")
              => ret'[t] # 0
      ]_vars

\* ---- C11 --------------------------------------------------------------
\* operations started on the primary datapath (by NPU_IOCTL_EXECUTE_INSTRUCTION
\* or by write) that the hardware has not finished
InFlightInstructions == {k \in OpIds : opState[k] = "running" /\ opBuf[k] = 0}

\* C11: at most one instruction is in flight on the device in every state;
\* CTRL_START is not written while an earlier instruction is still running.
C11_Original == Cardinality(InFlightInstructions) <= 1

\* ---- C12 --------------------------------------------------------------
\* C12: while an operation started on the hardware references a buffer and
\* has not completed, the buffer's reference count is above the 1 that the
\* allocation holds.
C12_Original ==
    \A b \in Bufs :
        (\E k \in OpIds : opBuf[k] = b /\ opState[k] = "running")
            => ref_count[b] > 1

\* ================================================ library: buffer calls
\* the cases of the switch in fpga_npu_ioctl; any other command of the
\* driver's magic takes the default branch, -ENOTTY
fpga_npu_ioctl_cases ==
    {"NPU_IOCTL_GET_DEVICE_INFO", "NPU_IOCTL_GET_STATUS",
     "NPU_IOCTL_GET_PERF_COUNTERS", "NPU_IOCTL_RESET_PERF_COUNTERS",
     "NPU_IOCTL_ALLOC_BUFFER", "NPU_IOCTL_FREE_BUFFER", "NPU_IOCTL_DMA_TRANSFER",
     "NPU_IOCTL_EXECUTE_INSTRUCTION", "NPU_IOCTL_WAIT_COMPLETION",
     "NPU_IOCTL_SET_CONFIG", "NPU_IOCTL_GET_CONFIG", "NPU_IOCTL_RESET_DEVICE",
     "NPU_IOCTL_GET_ERROR_INFO", "NPU_IOCTL_GET_THERMAL_INFO"}

\* the third argument of an ioctl: the address of a variable of the caller
\* that holds val, or the plain integer val.  copy_from_user succeeds on the
\* first; the integers of the model are buffer ids, addresses in the first
\* page, which no process has mapped.
UPtr(v) == [kind |-> "ptr", val |-> v]
UInt(n) == [kind |-> "int", val |-> n]
copy_from_user_ok(uarg) == uarg.kind = "ptr"

\* case NPU_IOCTL_FREE_BUFFER: copy_from_user(&buffer_id, arg), then
\* npu_free_dma_buffer; the value returned and the effect on the registry
ioctl_free_buffer_ret(uarg) ==
    IF ~copy_from_user_ok(uarg) THEN -EFAULT
    ELSE IF InRegistry(uarg.val) THEN 0
    ELSE -ENOENT

ioctl_free_buffer_do(uarg) ==
    IF ioctl_free_buffer_ret(uarg) # 0
      THEN UNCHANGED bufVars
      ELSE LET b == Lookup(uarg.val) IN
           /\ dma_buffers' = ListDel(dma_buffers, b)
           /\ ref_count' = [ref_count EXCEPT ![b] = ref_count[b] - 1]
           /\ mem' = [mem EXCEPT ![b] =
                  IF atomic_dec_and_test(ref_count[b] - 1) THEN "released" ELSE mem[b]]
           /\ UNCHANGED <<next_buffer_id, buffer_id, buf_size>>

\* a struct npu_buffer pointer is modelled by its slot: slot + 1, NULL is 0
HandleOf(slot) == slot + 1
SlotOf(h) == h - 1
Handles == {0} \cup {HandleOf(i) : i \in DOMAIN managed_buffers}
\* ctx->managed_buffers[slot] = buffer, and ctx->managed_buffers[slot] = NULL
SetSlot_lost(slot, buffer) == managed_buffers
SetSlot(slot, buffer) ==
    [i \in DOMAIN managed_buffers \cup {slot} |->
        IF i = slot THEN buffer ELSE managed_buffers[i]]
ClearSlot(slot) == [i \in DOMAIN managed_buffers \ {slot} |-> managed_buffers[i]]

find_buffer_slot ==
    LET free == Slots \ DOMAIN managed_buffers
    IN IF free = {} THEN -1 ELSE CHOOSE i \in free : \A j \in free : i <= j

LibFrame ==
    /\ UNCHANGED <<pc, lbuf, wrote, myop, irq_in_wait>>
    /\ UNCHANGED <<buffer_offset, ctx_buffer>>
    /\ UNCHANGED <<openVars, hwVars, interrupt_received, perf_operations, monVars>>
LibReturn(t, r) == ret' = [ret EXCEPT ![t] = r]

LibAllocSizes ==
    {0, NPU_MIN_BUFFER_SIZE - 1, NPU_MIN_BUFFER_SIZE, NPU_MAX_BUFFER_SIZE,
     NPU_MAX_BUFFER_SIZE + 1}

\* npu_buffer_alloc: slot, malloc of the struct (m), NPU_IOCTL_ALLOC_BUFFER,
\* bookkeeping in the context; returns the handle or NULL
npu_buffer_alloc(t, size, m, got) ==
    /\ pc[t] = "idle"
    /\ nbufs < MaxBufs
    /\ arg' = [arg EXCEPT ![t] = [call |-> "npu_buffer_alloc", size |-> size]]
    /\ LET slot == find_buffer_slot IN
         IF size = 0 \/ slot < 0 \/ ~m
           THEN /\ LibReturn(t, 0)
                /\ UNCHANGED <<bufVars, libVars>>
           ELSE /\ npu_alloc_dma_buffer_do(size, got)
                /\ IF npu_alloc_dma_buffer_ret(size, got) < 0
                     THEN /\ LibReturn(t, 0)
                          /\ UNCHANGED libVars
                     ELSE /\ managed_buffers' = SetSlot(slot,
                                [buffer_id |-> next_buffer_id, size |-> size,
                                 is_mapped |-> FALSE, mapped_ptr |-> 0])
                          /\ total_allocated' = total_allocated + size
                          /\ active_buffers' = active_buffers + 1
                          /\ LibReturn(t, HandleOf(slot))
                          /\ UNCHANGED <<vma, vm_target>>
    /\ LibFrame

\* npu_buffer_free: unmap when mapped, NPU_IOCTL_FREE_BUFFER with the id
\* itself as the argument, then the removal from the context
npu_buffer_free(t) ==
    \E h \in Handles :
    /\ pc[t] = "idle"
    /\ IF h = 0
         THEN /\ arg' = [arg EXCEPT ![t] =
                    [call |-> "npu_buffer_free", handle |-> h, buffer_id |-> 0]]
              /\ LibReturn(t, NPU_ERROR_INVALID)
              /\ UNCHANGED <<bufVars, libVars>>
         ELSE LET slot == SlotOf(h)
                  buffer == managed_buffers[slot]
                  uarg == UInt(buffer.buffer_id)
                  unmapped == [buffer EXCEPT !.is_mapped = FALSE, !.mapped_ptr = 0]
              IN /\ arg' = [arg EXCEPT ![t] =
                       [call |-> "npu_buffer_free", handle |-> h,
                        buffer_id |-> buffer.buffer_id]]
                 /\ vm_target' = IF buffer.is_mapped /\ buffer.mapped_ptr # 0
                                   THEN [vm_target EXCEPT ![buffer.mapped_ptr] = {}]
                                   ELSE vm_target
                 /\ ioctl_free_buffer_do(uarg)
                 /\ IF ioctl_free_buffer_ret(uarg) < 0
                      THEN /\ managed_buffers' =
                                 [managed_buffers EXCEPT ![slot] = unmapped]
                           /\ LibReturn(t, NPU_ERROR_DEVICE)
                           /\ UNCHANGED <<total_allocated, active_buffers>>
                      ELSE /\ managed_buffers' = ClearSlot(slot)
                           /\ total_allocated' = total_allocated - buffer.size
                           /\ active_buffers' = active_buffers - 1
                           /\ LibReturn(t, NPU_SUCCESS)
                 /\ UNCHANGED vma
    /\ LibFrame

\* fpga_npu_mmap: the value returned for a mapping of `size` bytes (ok: whether
\* remap_pfn_range succeeds); on success the pages mapped are those of
\* dev->dma_buffer
fpga_npu_mmap_ret(size, ok) ==
    IF size > dma_size THEN -EINVAL
    ELSE IF ~ok THEN -EAGAIN
    ELSE 0

fpga_npu_mmap_do(t, size, ok) ==
    IF fpga_npu_mmap_ret(size, ok) # 0
      THEN UNCHANGED <<vma, vm_target>>
      ELSE /\ vm_target' = [vm_target EXCEPT ![t] = {dev_dma_buffer}]
           /\ vma' = t

\* the registered buffers, and the sizes a caller asks to map
LiveBufs == {dma_buffers[i] : i \in 1..Len(dma_buffers)}
MmapSizes == {NPU_MIN_BUFFER_SIZE, dma_size, NPU_MAX_BUFFER_SIZE}

\* mmap() on the device file by a thread that means to map buffer b
fpga_npu_mmap(t, size, ok) ==
    \E b \in LiveBufs :
    /\ pc[t] = "idle"
    /\ arg' = [arg EXCEPT ![t] = [call |-> "mmap", buffer |-> b, size |-> size]]
    /\ fpga_npu_mmap_do(t, size, ok)
    /\ LibReturn(t, fpga_npu_mmap_ret(size, ok))
    /\ UNCHANGED <<bufVars, managed_buffers, total_allocated, active_buffers>>
    /\ LibFrame

\* the NPU_IOCTL_MMAP_REQUESTs issued so far by the calls of npu_buffer_map
\* that thread t has made in a row on buffer h
PriorRequests(t, h) ==
    IF arg[t].call = "npu_buffer_map" /\ arg[t].handle = h THEN arg[t].requests ELSE 0

\* npu_buffer_map: NPU_IOCTL_MMAP_REQUEST, then mmap of buffer->size bytes at
\* offset 0; returns the pointer (the mapping, named by its thread) or NULL
npu_buffer_map(t, ok) ==
    \E h \in Handles :
    /\ pc[t] = "idle"
    /\ PriorRequests(t, h) < MaxMapCalls
    /\ arg' = [arg EXCEPT ![t] =
           [call |-> "npu_buffer_map", handle |-> h,
            requests |-> PriorRequests(t, h) +
                IF h # 0 /\ ~managed_buffers[SlotOf(h)].is_mapped THEN 1 ELSE 0]]
    /\ IF h = 0
         THEN /\ LibReturn(t, 0)
              /\ UNCHANGED libVars
         ELSE LET slot == SlotOf(h)
                  buffer == managed_buffers[slot]
              IN IF buffer.is_mapped
                   THEN /\ LibReturn(t, buffer.mapped_ptr)
                        /\ UNCHANGED libVars
                   ELSE IF "NPU_IOCTL_MMAP_REQUEST" \notin fpga_npu_ioctl_cases
                   THEN /\ LibReturn(t, 0)
                        /\ UNCHANGED libVars
                   ELSE /\ fpga_npu_mmap_do(t, buffer.size, ok)
                        /\ IF fpga_npu_mmap_ret(buffer.size, ok) # 0
                             THEN /\ LibReturn(t, 0)
                                  /\ UNCHANGED managed_buffers
                             ELSE /\ managed_buffers' = [managed_buffers EXCEPT
                                        ![slot].is_mapped = TRUE,
                                        ![slot].mapped_ptr = t]
                                  /\ LibReturn(t, t)
                        /\ UNCHANGED <<total_allocated, active_buffers>>
    /\ UNCHANGED bufVars
    /\ LibFrame

NextLib ==
    \/ \E t \in Threads, size \in LibAllocSizes, m \in BOOLEAN, got \in BOOLEAN :
           npu_buffer_alloc(t, size, m, got)
    \/ \E t \in Threads : npu_buffer_free(t)
    \/ \E t \in Threads, ok \in BOOLEAN : npu_buffer_map(t, ok)
    \/ \E t \in Threads, size \in MmapSizes, ok \in BOOLEAN : fpga_npu_mmap(t, size, ok)
    \/ \E t \in Threads : npu_free_dma_buffer_find(t)
    \/ \E t \in Threads : npu_free_dma_buffer_put(t)

SpecLib == Init /\ [][NextLib]_vars

\* ---- C13 --------------------------------------------------------------
\* C13: npu_buffer_free of a buffer that npu_buffer_alloc returned succeeds
\* and takes the buffer out of the driver's registry (so that the memory can
\* be allocated again); npu_buffer_alloc with a size of 0, below 4 KiB or
\* above 16 MiB returns no buffer and registers none.
C13_Original ==
    \A t \in Threads :
        /\ (Returned(t, "npu_buffer_free") /\ arg[t].handle # 0)
               => /\ ret[t] = NPU_SUCCESS
                  /\ ~InRegistry(arg[t].buffer_id)
        /\ (/\ Returned(t, "npu_buffer_alloc")
            /\ (arg[t].size < NPU_MIN_BUFFER_SIZE \/ arg[t].size > NPU_MAX_BUFFER_SIZE))
               => ret[t] = 0

\* ---- C14 --------------------------------------------------------------
\* thread t takes a step of a free call in this transition
FreeStep(t) ==
    /\ pc[t] = "idle"
    /\ arg'[t].call = "free"
    /\ (pc'[t] # pc[t] \/ arg'[t] # arg[t] \/ ret'[t] # ret[t])
\* no registered buffer carries the id
Unknown(id) == \A i \in 1..Len(dma_buffers) : buffer_id[dma_buffers[i]] # id

\* C14: a free of an id that no registered buffer carries (never allocated, or
\* already freed) returns -ENOENT at once and leaves the registry, the id
\* counter, every reference count and all backing memory unchanged.
C14_FreeUnknown ==
    [][\A t \in Threads :
          (FreeStep(t) /\ Unknown(arg'[t].buffer_id))
              => /\ pc'[t] = "idle"
                 /\ ret'[t] = -ENOENT
                 /\ UNCHANGED bufVars
      ]_vars

\* a second free of an id whose buffer was already freed returned -ENOENT
C14_Witness ==
    \E t \in Threads :
        /\ Returned(t, "free")
        /\ ret[t] = -ENOENT
        /\ \E b \in Bufs : mem[b] = "released" /\ buffer_id[b] = arg[t].buffer_id

\* ====================================================== buffer id counter
\* 0xFFFFFFFF, the largest value of the u32 counter dev->next_buffer_id
U32_MAX == -1

\* a session of a device that has handed out 0xFFFFFFFE ids since it was
\* probed, all of those buffers freed again: the counter stands at 0xFFFFFFFF
InitIds ==
    /\ InitDevAt(U32_MAX)
    /\ InitThreads
    /\ device_open = TRUE
    /\ opc = [p \in Callers |-> IF p = 1 THEN "returned" ELSE "idle"]
    /\ oret = [p \in Callers |-> 0]

NextIds ==
    \/ \E t \in Threads, size \in AllocSizes, got \in BOOLEAN :
           npu_alloc_dma_buffer(t, size, got)
    \/ \E t \in Threads : npu_free_dma_buffer_find(t)
    \/ \E t \in Threads : npu_free_dma_buffer_put(t)

SpecIds == InitIds /\ [][NextIds]_vars

\* ---- C15 --------------------------------------------------------------
\* C15: of two buffers, the one allocated later has the greater id (as the
\* unsigned 32-bit numbers the ids are), so no two registered buffers share
\* an id.  Buffers are numbered in the order of their allocation.
C15_Original ==
    \A b1 \in Bufs, b2 \in Bufs :
        (b1 < b2 /\ b2 <= nbufs) => u32_lt(buffer_id[b1], buffer_id[b2])

\* ========================================================== device reset
\* NPU_IOCTL_RESET_DEVICE: mutex_lock, CTRL_RESET written, msleep(10).  The
\* call notes how many operations had been started when it pulsed the reset.
ioctl_reset_device_pulse(t) ==
    /\ pc[t] = "idle"
    /\ dev_mutex = 0
    /\ dev_mutex' = t
    /\ arg' = [arg EXCEPT ![t] = [call |-> "reset", started |-> nops]]
    /\ reg' = [reg EXCEPT !["CONTROL"] = CTRL_RESET]
    /\ wrote' = [wrote EXCEPT ![t] = {"CONTROL"}]
    /\ HwReset
    /\ pc' = [pc EXCEPT ![t] = "reset_sleep"]
    /\ UNCHANGED <<irq, nops, opBuf>>
    /\ UNCHANGED <<ret, lbuf, myop, irq_in_wait>>
    /\ UNCHANGED <<bufVars, interrupt_received, perf_operations, monVars>>
    /\ UNCHANGED <<device_open, opc, oret, libVars>>

\* after the msleep: CTRL_ENABLE written, mutex_unlock, the ioctl returns 0
ioctl_reset_device_enable(t) ==
    /\ pc[t] = "reset_sleep"
    /\ dev_mutex = t
    /\ dev_mutex' = 0
    /\ reg' = [reg EXCEPT !["CONTROL"] = CTRL_ENABLE]
    /\ Return(t, 0)
    /\ UNCHANGED <<status, irq, nops, opState, opBuf>>
    /\ UNCHANGED <<arg, wrote, myop, irq_in_wait>>
    /\ UNCHANGED <<bufVars, interrupt_received, perf_operations, monVars>>
    /\ UNCHANGED <<device_open, opc, oret, libVars>>

\* a session that has allocated one buffer of the smallest size
InitOneBuffer ==
    /\ InitHw
    /\ InitThreads
    /\ device_open = TRUE
    /\ opc = [p \in Callers |-> IF p = 1 THEN "returned" ELSE "idle"]
    /\ oret = [p \in Callers |-> 0]
    /\ dma_buffers = <<1>>
    /\ next_buffer_id = 2
    /\ buffer_id = [b \in Bufs |-> IF b = 1 THEN 1 ELSE 0]
    /\ buf_size = [b \in Bufs |-> IF b = 1 THEN NPU_MIN_BUFFER_SIZE ELSE 0]
    /\ ref_count = [b \in Bufs |-> IF b = 1 THEN 1 ELSE 0]
    /\ mem = [b \in Bufs |-> IF b = 1 THEN "live" ELSE "none"]

NextReset ==
    \/ \E t \in Threads : ioctl_reset_device_pulse(t)
    \/ \E t \in Threads : ioctl_reset_device_enable(t)
    \/ \E t \in Threads, inst \in Instructions : npu_execute_instruction(t, inst)
    \/ \E t \in Threads : npu_dma_transfer_find(t)
    \/ \E t \in Threads : npu_dma_transfer_setup(t)
    \/ \E t \in Threads : npu_dma_transfer_wake(t)
    \/ \E t \in Threads : npu_dma_transfer_clear(t)
    \/ \E t \in Threads : npu_dma_transfer_out(t)
    \/ \E k \in OpIds : HwComplete(k)
    \/ fpga_npu_interrupt

SpecReset == InitOneBuffer /\ [][NextReset]_vars

\* ---- C16 --------------------------------------------------------------
\* the operations that had been started when the reset of a returned
\* NPU_IOCTL_RESET_DEVICE was pulsed
StartedBefore(r) == 1..arg[r].started
\* thread t sleeps in the blocking transfer that started operation k, holding
\* the reference it took on the operation's buffer
BlockedOn(t, k) == pc[t] = "xfer_sleep" /\ myop[t] = k

\* C16: once NPU_IOCTL_RESET_DEVICE has returned, no operation started before
\* the reset is still running, and no thread is still blocked in the transfer
\* that started such an operation, holding its buffer reference.
C16_Original ==
    \A r \in Threads :
        Returned(r, "reset") =>
            \A k \in StartedBefore(r) :
                /\ opState[k] # "running"
                /\ \A t \in Threads : ~BlockedOn(t, k)

\* ================================================= waits and their frame
NextWait ==
    \/ \E t \in Threads, inst \in Instructions : npu_execute_instruction(t, inst)
    \/ \E t \in Threads, timeout_ms \in {0, 10} : ioctl_wait_completion_enter(t, timeout_ms)
    \/ \E t \in Threads : ioctl_wait_completion_wake(t)
    \/ \E t \in Threads : ioctl_wait_completion_clear(t)
    \/ \E t \in Threads : npu_dma_transfer_find(t)
    \/ \E t \in Threads : npu_dma_transfer_setup(t)
    \/ \E t \in Threads : npu_dma_transfer_wake(t)
    \/ \E t \in Threads : npu_dma_transfer_clear(t)
    \/ \E t \in Threads : npu_dma_transfer_out(t)
    \/ \E k \in OpIds : HwComplete(k)
    \/ fpga_npu_interrupt

SpecWait == InitOneBuffer /\ [][NextWait]_vars

\* ---- C17 --------------------------------------------------------------
\* thread t takes a step of a wait: it enters NPU_IOCTL_WAIT_COMPLETION, its
\* sleep there or in a blocking transfer ends, or it maps the sleep's result
WaitPathStep(t) ==
    \/ pc[t] = "idle" /\ pc'[t] = "wait_sleep"
    \/ pc[t] \in {"wait_sleep", "wait_clear", "xfer_sleep", "xfer_clear"} /\ pc'[t] # pc[t]
\* the step is part of a wait whose time runs out: the timed sleep returns 0,
\* or the result is mapped to -ETIMEDOUT
TimesOut(t) ==
    /\ arg'[t].timeout_ms > 0
    /\ pc[t] \in {"wait_sleep", "xfer_sleep"} => ret'[t] = 0
    /\ pc[t] \in {"wait_clear", "xfer_clear"} => ret'[t] = -ETIMEDOUT

\* C17: no step of a wait that runs into its timeout writes a device register
\* or changes what the hardware is doing: the registers, STATUS and the state
\* of every started operation are the same after the step as before it.
C17_TimeoutFrame ==
    [][\A t \in Threads :
           (WaitPathStep(t) /\ TimesOut(t)) =>
               UNCHANGED <<reg, status, irq, nops, opState, opBuf>>]_vars

\* a wait has returned -ETIMEDOUT while an operation is still running
C17_Witness ==
    \E t \in Threads, k \in OpIds :
        /\ Returned(t, "wait") /\ ret[t] = -ETIMEDOUT /\ wrote[t] = {}
        /\ opState[k] = "running"

\* ---- C18 --------------------------------------------------------------
\* thread t's last call was an mmap meant for buffer b, which is registered
MmapOf(t, b) == Returned(t, "mmap") /\ arg[t].buffer = b /\ b \in LiveBufs

\* C18: an mmap meant for the registered buffer b succeeds exactly when the
\* requested size does not exceed b's size (unless the kernel cannot set the
\* mapping up), the mapping refers to b's memory, and the mappings made for
\* two distinct registered buffers share no memory.
C18_Original ==
    /\ \A t \in Threads, b \in Bufs :
           MmapOf(t, b) =>
               /\ ret[t] = 0 => arg[t].size <= buf_size[b]
               /\ (arg[t].size <= buf_size[b] /\ ret[t] # -EAGAIN) => ret[t] = 0
               /\ ret[t] = 0 => vm_target[t] = {b}
    /\ \A t1 \in Threads, t2 \in Threads, b1 \in Bufs, b2 \in Bufs :
           (MmapOf(t1, b1) /\ MmapOf(t2, b2) /\ b1 # b2 /\ ret[t1] = 0 /\ ret[t2] = 0)
               => vm_target[t1] \cap vm_target[t2] = {}

\* ===================================================== npu_matrix_multiply
\* npu_create_tensor: the descriptor of a tensor of n*c*h*w elements of
\* element_size bytes; data names the caller's array (dims are indexed from 0)
npu_create_tensor(data, n, c, h, w, element_size) ==
    [data |-> data, size |-> n * c * h * w * element_size,
     dims |-> [i \in 0..3 |-> CASE i = 0 -> n [] i = 1 -> c [] i = 2 -> h [] OTHER -> w]]
\* npu_tensor_t invalid_tensor = {0}
invalid_tensor == [data |-> "NULL", size |-> 0, dims |-> [i \in 0..3 |-> 0]]

\* the operands the callers pass: 4x4 float matrices, the zeroed descriptor,
\* for A a 512x512 matrix that fills the staging buffer on its own, for B a
\* 2x3 matrix whose rows do not match A's columns
OperandsA == {npu_create_tensor("A", 1, 1, 4, 4, 4), invalid_tensor,
              npu_create_tensor("A", 1, 1, 512, 512, 4)}
OperandsB == {npu_create_tensor("B", 1, 1, 4, 4, 4), invalid_tensor,
              npu_create_tensor("B", 1, 1, 2, 3, 4)}
OperandsC == {npu_create_tensor("C", 1, 1, 4, 4, 4)}

\* copy_tensor_to_buffer: st is <<ret, ctx->buffer_offset, ctx->buffer>>; the
\* tensor is copied to the offset and the offset advanced, or
\* NPU_ERROR_MEMORY when it does not fit
copy_tensor_to_buffer(st, name, tensor) ==
    IF st.offset + tensor.size > MAX_BUFFER_SIZE
      THEN [st EXCEPT !.ret = NPU_ERROR_MEMORY]
      ELSE [ret |-> NPU_SUCCESS,
            offset |-> st.offset + tensor.size,
            buffer |-> Append(st.buffer,
                          [tensor |-> name, offset |-> st.offset,
                           size |-> tensor.size, intact |-> TRUE])]

\* memcpy(ctx->buffer, src, n): the staged bytes in [0, n) are overwritten
memcpy_to_buffer(buffer, n) ==
    [i \in 1..Len(buffer) |->
        IF buffer[i].size > 0 /\ buffer[i].offset < n
          THEN [buffer[i] EXCEPT !.intact = FALSE]
          ELSE buffer[i]]

\* ioctl(ctx->fd, 1, 0) as the driver answers it, and npu_wait_completion's
\* return value
lib_wait_ioctl ==
    CASE fpga_npu_ioctl_case(lib_wait_cmd) = "ENOTTY" -> -ENOTTY
      [] fpga_npu_ioctl_case(lib_wait_cmd) = "WAIT_COMPLETION" -> -EFAULT
      [] OTHER -> -ENOTTY
npu_wait_completion_ret == IF lib_wait_ioctl < 0 THEN NPU_ERROR_DEVICE ELSE NPU_SUCCESS

\* the library context is used by one thread at a time
CtxFree == \A u \in Threads : pc[u] = "idle"

\* the staging of a, b and c from offset 0, stopping at the first failure
stage_operands(a, b, c) ==
    LET s0 == [ret |-> NPU_SUCCESS, offset |-> 0, buffer |-> <<>>]
        sa == copy_tensor_to_buffer(s0, "a", a)
        sb == IF sa.ret # NPU_SUCCESS THEN sa ELSE copy_tensor_to_buffer(sa, "b", b)
    IN IF sb.ret # NPU_SUCCESS THEN sb ELSE copy_tensor_to_buffer(sb, "c", c)

\* npu_matrix_multiply, up to the instruction: the NULL checks, the offset
\* reset, and the staging of a, b and c with a return on the first failure
npu_matrix_multiply_enter(t, a, b, c) ==
    /\ pc[t] = "idle"
    /\ nops + Cardinality({u \in Threads : pc[u] = "mm_submit"}) < MaxOps
    /\ arg' = [arg EXCEPT ![t] = [call |-> "npu_matrix_multiply", a |-> a, b |-> b,
                                    c |-> c, c_mem |-> "old", nops0 |-> nops]]
    /\ wrote' = [wrote EXCEPT ![t] = {}]
    /\ LET sc == stage_operands(a, b, c)
       IN /\ buffer_offset' = sc.offset
          /\ ctx_buffer' = sc.buffer
          /\ ret' = [ret EXCEPT ![t] = sc.ret]
          /\ pc' = [pc EXCEPT ![t] = IF sc.ret # NPU_SUCCESS THEN "idle" ELSE "mm_submit"]
    /\ UNCHANGED <<lbuf, myop, irq_in_wait>>
    /\ UNCHANGED <<managed_buffers, total_allocated, active_buffers, vma, vm_target>>
    /\ UNCHANGED <<openVars, bufVars, hwVars, interrupt_received, perf_operations, monVars>>

\* the call made while no other thread is inside the library
npu_matrix_multiply_stage(t, a, b, c) ==
    CtxFree /\ npu_matrix_multiply_enter(t, a, b, c)

\* npu_execute_instruction of the library: the instruction is copied to the
\* start of ctx->buffer and written to the device, where fpga_npu_write
\* copies it to the DMA buffer and starts the hardware
npu_matrix_multiply_submit(t) ==
    /\ pc[t] = "mm_submit"
    /\ ctx_buffer' = memcpy_to_buffer(ctx_buffer, sizeof_npu_instruction_t)
    /\ LET len == sizeof_npu_instruction_t
           n == IF len > dma_size THEN dma_size ELSE len
       IN /\ reg' = [reg EXCEPT
                 !["DATA_ADDR"] = u32(dma_handle(dev_dma_buffer)),
                 !["DATA_SIZE"] = u32(n),
                 !["CONTROL"] = CTRL_ENABLE + CTRL_START]
          /\ ret' = [ret EXCEPT ![t] =
                 IF n # sizeof_npu_instruction_t THEN NPU_ERROR_DEVICE ELSE NPU_SUCCESS]
          /\ pc' = [pc EXCEPT ![t] =
                 IF n # sizeof_npu_instruction_t THEN "idle" ELSE "mm_wait"]
    /\ wrote' = [wrote EXCEPT ![t] = {"DATA_ADDR", "DATA_SIZE", "CONTROL"}]
    /\ HwStart(dev_dma_buffer)
    /\ myop' = [myop EXCEPT ![t] = nops + 1]
    /\ UNCHANGED <<arg, lbuf, irq, irq_in_wait, buffer_offset>>
    /\ UNCHANGED <<managed_buffers, total_allocated, active_buffers, vma, vm_target>>
    /\ UNCHANGED <<openVars, bufVars, interrupt_received, perf_operations, monVars>>

\* the result is read back when the wait has succeeded
copy_back(r) == r = NPU_SUCCESS

\* npu_wait_completion(handle, 0), then copy_tensor_from_buffer or the return
\* of the wait's error
npu_matrix_multiply_wait(t) ==
    /\ pc[t] = "mm_wait"
    /\ IF copy_back(npu_wait_completion_ret)
         THEN /\ arg' = [arg EXCEPT ![t].c_mem = "buffer"]
              /\ ret' = [ret EXCEPT ![t] =
                     IF ctx_buffer[3].offset + arg[t].c.size > MAX_BUFFER_SIZE
                       THEN NPU_ERROR_MEMORY ELSE NPU_SUCCESS]
         ELSE /\ ret' = [ret EXCEPT ![t] = npu_wait_completion_ret]
              /\ UNCHANGED arg
    /\ pc' = [pc EXCEPT ![t] = "idle"]
    /\ UNCHANGED <<lbuf, wrote, myop, irq_in_wait>>
    /\ UNCHANGED libVars
    /\ UNCHANGED <<openVars, bufVars, hwVars, interrupt_received, perf_operations, monVars>>

NextMat ==
    \/ \E t \in Threads, a \in OperandsA, b \in OperandsB, c \in OperandsC :
           npu_matrix_multiply_stage(t, a, b, c)
    \/ \E t \in Threads : npu_matrix_multiply_submit(t)
    \/ \E t \in Threads : npu_matrix_multiply_wait(t)
    \/ \E k \in OpIds : HwComplete(k)
    \/ fpga_npu_interrupt

SpecMat == Init /\ [][NextMat]_vars

\* ---- C19 --------------------------------------------------------------
\* the operands of the call are not fit for a product: A's columns differ
\* from B's rows, or a tensor has no data or no size
InvalidOperands(x) ==
    \/ x.a.dims[3] # x.b.dims[2]
    \/ \E o \in {x.a, x.b, x.c} : o.data = "NULL" \/ o.size = 0

\* C19: npu_matrix_multiply called with operands that are not fit for a
\* product returns an error, has written no device register (no instruction
\* was submitted) and has left C as it was.
C19_Original ==
    \A t \in Threads :
        (Returned(t, "npu_matrix_multiply") /\ InvalidOperands(arg[t])) =>
            /\ ret[t] # NPU_SUCCESS
            /\ wrote[t] = {}
            /\ arg[t].c_mem = "old"

\* ---- C20 --------------------------------------------------------------
\* the staged copy of the operand is whole in ctx->buffer
Staged(name) ==
    \E i \in 1..Len(ctx_buffer) : ctx_buffer[i].tensor = name /\ ctx_buffer[i].intact

\* C20: when npu_matrix_multiply has submitted its instruction, the three
\* operands are staged and this is the one instruction the call has started;
\* C is written only by a call that returns success, after its wait.
C20_Original ==
    \A t \in Threads :
        /\ pc[t] = "mm_wait" =>
               /\ \A name \in {"a", "b", "c"} : Staged(name)
               /\ nops = arg[t].nops0 + 1
        /\ (arg[t].call = "npu_matrix_multiply" /\ arg[t].c_mem # "old") =>
               (pc[t] = "idle" /\ ret[t] = NPU_SUCCESS)
        /\ (Returned(t, "npu_matrix_multiply") /\ ret[t] # NPU_SUCCESS) =>
               arg[t].c_mem = "old"

\* ================================== tensor operations on a shared handle
\* the threads of test_concurrent_operations call into the library with the
\* same handle, with nothing to keep one call out while another is inside
NextConc ==
    \/ \E t \in Threads, a \in OperandsA, b \in OperandsB, c \in OperandsC :
           npu_matrix_multiply_enter(t, a, b, c)
    \/ \E t \in Threads : npu_matrix_multiply_submit(t)
    \/ \E t \in Threads : npu_matrix_multiply_wait(t)
    \/ \E k \in OpIds : HwComplete(k)
    \/ fpga_npu_interrupt

SpecConc == Init /\ [][NextConc]_vars

\* ---- C21 --------------------------------------------------------------
\* C21: a call that has staged its operands and is about to submit its
\* instruction finds in the context's buffer what it staged itself: the
\* regions of its own a, b and c, and its own buffer_offset.
C21_Original ==
    \A t \in Threads :
        pc[t] = "mm_submit" =>
            /\ ctx_buffer = stage_operands(arg[t].a, arg[t].b, arg[t].c).buffer
            /\ buffer_offset = stage_operands(arg[t].a, arg[t].b, arg[t].c).offset

\* ============================================ software tensor operations
\* a pointer argument is the set of what it points to: {} is NULL
NullOr(x) == {{}, {x}}

\* npu_layer_norm: input and output are tested, the handle is not; the
\* normalised values are stored through output->data
npu_layer_norm(t, handle, input, weight, bias, output) ==
    /\ pc[t] = "idle"
    /\ LET r == IF input = {} \/ output = {} THEN NPU_ERROR_INVALID ELSE NPU_SUCCESS
       IN /\ arg' = [arg EXCEPT ![t] =
                 [call |-> "npu_layer_norm", handle |-> handle, input |-> input,
                  weight |-> weight, bias |-> bias, output |-> output,
                  out_mem |-> IF r = NPU_SUCCESS THEN "layer_norm" ELSE "old"]]
          /\ LibReturn(t, r)
    /\ wrote' = [wrote EXCEPT ![t] = {}]
    /\ UNCHANGED <<pc, lbuf, myop, irq_in_wait>>
    /\ UNCHANGED <<openVars, bufVars, hwVars, libVars, interrupt_received, perf_operations, monVars>>

\* npu_transpose: input, output and perm are tested, the handle is not; the
\* transposed (or copied) values are stored through output->data
npu_transpose(t, handle, input, output, perm) ==
    /\ pc[t] = "idle"
    /\ LET r == IF input = {} \/ output = {} \/ perm = {} THEN NPU_ERROR_INVALID
                ELSE NPU_SUCCESS
       IN /\ arg' = [arg EXCEPT ![t] =
                 [call |-> "npu_transpose", handle |-> handle, input |-> input,
                  output |-> output, perm |-> perm,
                  out_mem |-> IF r = NPU_SUCCESS THEN "transpose" ELSE "old"]]
          /\ LibReturn(t, r)
    /\ wrote' = [wrote EXCEPT ![t] = {}]
    /\ UNCHANGED <<pc, lbuf, myop, irq_in_wait>>
    /\ UNCHANGED <<openVars, bufVars, hwVars, libVars, interrupt_received, perf_operations, monVars>>

NextOps ==
    \/ \E t \in Threads, handle \in NullOr("ctx"), input \in NullOr("input"),
          weight \in NullOr("scale"), bias \in NullOr("bias"),
          output \in NullOr("output") :
           npu_layer_norm(t, handle, input, weight, bias, output)
    \/ \E t \in Threads, handle \in NullOr("ctx"), input \in NullOr("input"),
          output \in NullOr("transposed"), perm \in NullOr("perm") :
           npu_transpose(t, handle, input, output, perm)

SpecOps == Init /\ [][NextOps]_vars

\* ---- C22 --------------------------------------------------------------
\* C22: npu_layer_norm and npu_transpose called with a NULL handle return
\* NPU_ERROR_INVALID, write no device register and leave the output tensor
\* as it was.
C22_Original ==
    \A t \in Threads :
        (/\ Returned(t, "npu_layer_norm") \/ Returned(t, "npu_transpose")
         /\ arg[t].handle = {}) =>
            /\ ret[t] = NPU_ERROR_INVALID
            /\ wrote[t] = {}
            /\ arg[t].out_mem = "old"

\* ---- C23 --------------------------------------------------------------
\* npu_get_memory_stats: what it stores through its three out-pointers
npu_get_memory_stats ==
    [total_allocated |-> total_allocated,
     total_free |-> 256 * 1024 * 1024 - total_allocated,
     buffer_count |-> active_buffers]

\* the sizes of the buffers held in the slots S, added up
RECURSIVE HeldSize(_)
HeldSize(S) ==
    IF S = {} THEN 0
    ELSE LET i == CHOOSE j \in S : TRUE
         IN managed_buffers[i].size + HeldSize(S \ {i})

\* C23: whatever npu_buffer_alloc and npu_buffer_free calls were made and
\* however they ended, npu_get_memory_stats reports as total_allocated the sum
\* of the sizes of the buffers held in managed_buffers and as buffer_count
\* their number (so both are 0 when none is held).
C23_Stats ==
    /\ npu_get_memory_stats.total_allocated = HeldSize(DOMAIN managed_buffers)
    /\ npu_get_memory_stats.buffer_count = Cardinality(DOMAIN managed_buffers)

\* a free has failed and a failed allocation has returned NULL while a
\* buffer of the smallest size is held
C23_Witness ==
    \E t \in Threads, u \in Threads :
        /\ Returned(t, "npu_buffer_free") /\ ret[t] = NPU_ERROR_DEVICE
        /\ Returned(u, "npu_buffer_alloc") /\ ret[u] = 0
        /\ npu_get_memory_stats.buffer_count = 1
        /\ npu_get_memory_stats.total_allocated = NPU_MIN_BUFFER_SIZE

\* ---- C24 --------------------------------------------------------------
\* C24: the calls of npu_buffer_map that a thread makes in a row on one
\* buffer issue the mapping request to the driver at most once between them.
C24_Original ==
    \A t \in Threads :
        (Returned(t, "npu_buffer_map") /\ arg[t].handle # 0) => arg[t].requests <= 1

\* ========================================================= device removal
\* pci_iounmap has run: no register is mapped any more
Removed == DOMAIN reg = {}

\* fpga_npu_remove: CONTROL is cleared, the device node, the interrupt, the
\* DMA buffer and the register windows are released and dev is kfree'd.
\* file->private_data of a session that is still open is left as it is.
fpga_npu_remove ==
    /\ ~Removed
    /\ \A t \in Threads : pc[t] = "idle"
    /\ reg' = [r \in {} |-> 0]
    /\ irq' = FALSE
    /\ UNCHANGED <<status, nops, opState, opBuf>>
    /\ UNCHANGED <<openVars, bufVars, thVars, libVars, interrupt_received, perf_operations, monVars>>

\* what each file operation does with dev = file->private_data, none of them
\* finding it NULL: the released objects it dereferences, the registers it
\* reads or writes, and the value it returns when the accesses go through
SessionCalls == {"ioctl_bad_magic", "ioctl_get_status", "read", "write", "mmap", "poll"}
FileOperation(call) ==
    CASE call = "ioctl_bad_magic" ->
             [touched |-> {}, regs |-> {}, wrote |-> {}, ret |-> -ENOTTY]
      [] call = "ioctl_get_status" ->
             [touched |-> {"dev", "control_bar"}, regs |-> {"STATUS"}, wrote |-> {},
              ret |-> 0]
      [] call = "read" ->
             [touched |-> {"dev", "dma_buffer"}, regs |-> {}, wrote |-> {},
              ret |-> sizeof_npu_instruction_t]
      [] call = "write" ->
             [touched |-> {"dev", "dma_buffer", "control_bar"},
              regs |-> {"DATA_ADDR", "DATA_SIZE", "CONTROL"},
              wrote |-> {"DATA_ADDR", "DATA_SIZE", "CONTROL"},
              ret |-> sizeof_npu_instruction_t]
      [] call = "mmap" ->
             [touched |-> {"dev", "dma_buffer"}, regs |-> {}, wrote |-> {}, ret |-> 0]
      [] OTHER ->  \* poll: POLLIN | POLLRDNORM is 65, POLLOUT | POLLWRNORM is 260
             [touched |-> {"dev", "control_bar"}, regs |-> {"STATUS"}, wrote |-> {},
              ret |-> (IF interrupt_received THEN 65 ELSE 0) +
                      (IF "READY" \in status THEN 260 ELSE 0)]

\* a file operation on the session after the removal.  Its accesses to the
\* freed structure and the unmapped window are undefined: either they go
\* through on what the memory still holds, or the kernel faults and the
\* calling thread is killed (oops).
fpga_npu_fop_after_remove(t, call, oops) ==
    /\ Removed
    /\ pc[t] = "idle"
    /\ LET op == FileOperation(call) IN
         /\ arg' = [arg EXCEPT ![t] =
                [call |-> call, removed |-> TRUE, touched |-> op.touched,
                 regs |-> op.regs]]
         /\ wrote' = [wrote EXCEPT ![t] = op.wrote]
         /\ IF oops /\ op.touched # {}
              THEN /\ pc' = [pc EXCEPT ![t] = "oops"]
                   /\ UNCHANGED ret
              ELSE /\ ret' = [ret EXCEPT ![t] = op.ret]
                   /\ UNCHANGED pc
    /\ UNCHANGED <<lbuf, myop, irq_in_wait>>
    /\ UNCHANGED <<openVars, bufVars, hwVars, libVars, interrupt_received, perf_operations, monVars>>

NextRemove ==
    \/ fpga_npu_remove
    \/ \E t \in Threads, call \in SessionCalls, oops \in BOOLEAN :
           fpga_npu_fop_after_remove(t, call, oops)

SpecRemove == Init /\ [][NextRemove]_vars

\* ---- C25 --------------------------------------------------------------
\* C25: a file operation issued on the open session after the removal
\* returns -ENODEV, having accessed no register and nothing that the removal
\* released.
C25_Original ==
    \A t \in Threads :
        (arg[t].call \in SessionCalls /\ arg[t].removed) =>
            /\ pc[t] = "idle"
            /\ ret[t] = -ENODEV
            /\ arg[t].regs = {} /\ wrote[t] = {}
            /\ arg[t].touched = {}

\* ========================================================== configuration
ConfigFields == {"pe_enable_mask", "clock_frequency", "power_mode", "cache_policy"}
\* the configurations that the callers pass to NPU_IOCTL_SET_CONFIG
ConfigArgs ==
    {[pe_enable_mask |-> 255, clock_frequency |-> 200, power_mode |-> 1,
      cache_policy |-> 0],
     [pe_enable_mask |-> 15, clock_frequency |-> 100, power_mode |-> 2,
      cache_policy |-> 1]}

mutex_free_always(m) == TRUE
\* mutex_lock goes on when nobody holds the mutex
mutex_free(m) == m = 0

\* NPU_IOCTL_SET_CONFIG: copy_from_user into the local config
ioctl_set_config_enter(t, cfg, ok) ==
    /\ pc[t] = "idle"
    /\ arg' = [arg EXCEPT ![t] = [call |-> "set_config", cfg |-> cfg,
                                    left |-> ConfigFields]]
    /\ wrote' = [wrote EXCEPT ![t] = {}]
    /\ IF ok THEN /\ pc' = [pc EXCEPT ![t] = "cfg_lock"]
                  /\ UNCHANGED ret
             ELSE /\ ret' = [ret EXCEPT ![t] = -EFAULT]
                  /\ UNCHANGED pc
    /\ UNCHANGED <<lbuf, myop, irq_in_wait>>
    /\ UNCHANGED <<openVars, bufVars, hwVars, libVars, interrupt_received, perf_operations, monVars>>

\* mutex_lock(&dev->dev_mutex)
ioctl_set_config_lock(t) ==
    /\ pc[t] = "cfg_lock"
    /\ mutex_free(dev_mutex)
    /\ dev_mutex' = t
    /\ pc' = [pc EXCEPT ![t] = "cfg_store"]
    /\ UNCHANGED <<arg, ret, lbuf, wrote, myop, irq_in_wait>>
    /\ UNCHANGED <<device_open, opc, oret>>
    /\ UNCHANGED <<bufVars, hwVars, libVars, interrupt_received, perf_operations, monVars>>

\* dev->config = config: a structure assignment, which stores the words of
\* the structure one after the other, in an order the compiler chooses
ioctl_set_config_store(t) ==
    /\ pc[t] = "cfg_store"
    /\ \E f \in arg[t].left :
          /\ config' = [config EXCEPT ![f] = arg[t].cfg[f]]
          /\ arg' = [arg EXCEPT ![t].left = @ \ {f}]
          /\ pc' = [pc EXCEPT ![t] = IF arg[t].left = {f} THEN "cfg_apply"
                                     ELSE "cfg_store"]
    /\ UNCHANGED <<ret, lbuf, wrote, myop, irq_in_wait>>
    /\ UNCHANGED <<thermal_info, thermal_timer, jiffies, perf_cycles, probeVars, profiling_session>>
    /\ UNCHANGED <<openVars, bufVars, hwVars, libVars, interrupt_received, perf_operations>>

\* iowrite32(config.pe_enable_mask, REG_CONFIG), mutex_unlock, return 0
ioctl_set_config_apply(t) ==
    /\ pc[t] = "cfg_apply"
    /\ reg' = [reg EXCEPT !["CONFIG"] = arg[t].cfg.pe_enable_mask]
    /\ wrote' = [wrote EXCEPT ![t] = {"CONFIG"}]
    /\ dev_mutex' = 0
    /\ pc' = [pc EXCEPT ![t] = "idle"]
    /\ ret' = [ret EXCEPT ![t] = 0]
    /\ UNCHANGED <<arg, lbuf, myop, irq_in_wait>>
    /\ UNCHANGED <<status, irq, nops, opState, opBuf>>
    /\ UNCHANGED <<device_open, opc, oret>>
    /\ UNCHANGED <<bufVars, libVars, interrupt_received, perf_operations, monVars>>

\* NPU_IOCTL_GET_CONFIG: copy_to_user of dev->config, dev_mutex not taken
ioctl_get_config(t, ok) ==
    /\ pc[t] = "idle"
    /\ arg' = [arg EXCEPT ![t] = [call |-> "get_config", ok |-> ok, out |-> config]]
    /\ wrote' = [wrote EXCEPT ![t] = {}]
    /\ ret' = [ret EXCEPT ![t] = IF ok THEN 0 ELSE -EFAULT]
    /\ UNCHANGED <<pc, lbuf, myop, irq_in_wait>>
    /\ UNCHANGED <<openVars, bufVars, hwVars, libVars, interrupt_received, perf_operations, monVars>>

NextCfg ==
    \/ \E t \in Threads, cfg \in ConfigArgs, ok \in BOOLEAN :
           ioctl_set_config_enter(t, cfg, ok)
    \/ \E t \in Threads : ioctl_set_config_lock(t)
    \/ \E t \in Threads : ioctl_set_config_store(t)
    \/ \E t \in Threads : ioctl_set_config_apply(t)
    \/ \E t \in Threads, ok \in BOOLEAN : ioctl_get_config(t, ok)
    \/ \E t \in Threads : ioctl_reset_device_pulse(t)
    \/ \E t \in Threads : ioctl_reset_device_enable(t)

SpecCfg == Init /\ [][NextCfg]_vars

\* ---- C26 --------------------------------------------------------------
\* C26: the configuration that a successful NPU_IOCTL_GET_CONFIG returns is
\* the default configuration or the argument of one NPU_IOCTL_SET_CONFIG
\* call, never a mix of the fields of two configurations.
C26_Original ==
    \A t \in Threads :
        (Returned(t, "get_config") /\ ret[t] = 0) =>
            arg[t].out \in ({DefaultConfig} \cup ConfigArgs)

\* ---- C27 --------------------------------------------------------------
\* a thread is between mutex_lock and mutex_unlock of a configuration change
\* or of a reset
InCritical(t) == pc[t] \in {"cfg_store", "cfg_apply", "reset_sleep"}

\* C27: a reset writes CTRL_RESET and then CTRL_ENABLE to CONTROL; at most
\* one thread is inside a configuration change or a reset and it holds
\* dev_mutex; once a NPU_IOCTL_SET_CONFIG has returned and the mutex is free,
\* the CONFIG register holds the pe_enable_mask of the stored configuration.
C27_Serialised ==
    /\ \A t, u \in Threads : (InCritical(t) /\ InCritical(u)) => t = u
    /\ \A t \in Threads : InCritical(t) => dev_mutex = t
    /\ \A t \in Threads : pc[t] = "reset_sleep" => reg["CONTROL"] = CTRL_RESET
    /\ \A t \in Threads :
           (Returned(t, "reset") /\ \A u \in Threads : pc[u] # "reset_sleep")
               => reg["CONTROL"] = CTRL_ENABLE
    /\ \A t \in Threads :
           (Returned(t, "set_config") /\ ret[t] = 0 /\ dev_mutex = 0)
               => /\ reg["CONFIG"] = config.pe_enable_mask
                  /\ config \in ConfigArgs

\* a configuration change is half stored while another one waits for the mutex
C27_Witness ==
    \E t, u \in Threads :
        /\ pc[t] = "cfg_store" /\ arg[t].left \notin {{}, ConfigFields}
        /\ pc[u] = "cfg_lock" /\ arg[u].cfg # arg[t].cfg

\* ======================================================== thermal monitor
MaxPeriods == 3          \* timer periods that elapse in one run
\* what the sensors behind REG_TEMPERATURE (degrees Celsius) and REG_POWER show
Temperatures == {40, 74, 75, 76, 85, 86}
Powers == {5000, 20000}

\* the sensor readings change
HwSensor(temp, power) ==
    /\ ~Removed
    /\ reg' = [reg EXCEPT !["TEMPERATURE"] = temp, !["POWER"] = power]
    /\ reg' # reg
    /\ UNCHANGED <<status, irq, nops, opState, opBuf>>
    /\ UNCHANGED <<openVars, bufVars, thVars, libVars, interrupt_received, perf_operations, monVars>>

thermal_state_from_75(temp) ==
    IF temp > 85 THEN 2 ELSE IF temp >= 75 THEN 1 ELSE 0
\* thermal_state of npu_thermal_monitor: 0 normal, 1 warning, 2 critical
thermal_state(temp) ==
    IF temp > 85 THEN 2 ELSE IF temp > 75 THEN 1 ELSE 0

\* npu_thermal_monitor, the callback of dev->thermal_timer: both sensors are
\* read, the state is classified, and mod_timer arms the timer for 5 s later
npu_thermal_monitor ==
    /\ thermal_info' = [temperature_celsius |-> reg["TEMPERATURE"],
                        power_consumption_mw |-> reg["POWER"],
                        thermal_state |-> thermal_state(reg["TEMPERATURE"])]
    /\ thermal_timer' = TRUE

\* 5 s go by: the kernel runs the callback of the timer if it is pending
run_timers ==
    /\ jiffies < MaxPeriods
    /\ jiffies' = jiffies + 1
    /\ IF thermal_timer THEN npu_thermal_monitor
                        ELSE UNCHANGED <<thermal_info, thermal_timer>>
    /\ UNCHANGED <<config, perf_cycles, probeVars, profiling_session>>
    /\ UNCHANGED <<openVars, bufVars, hwVars, thVars, libVars, interrupt_received, perf_operations>>

\* NPU_IOCTL_GET_THERMAL_INFO: copy_to_user of dev->thermal_info
ioctl_get_thermal_info(t, ok) ==
    /\ pc[t] = "idle"
    /\ arg' = [arg EXCEPT ![t] = [call |-> "get_thermal_info", ok |-> ok,
                                    out |-> thermal_info]]
    /\ wrote' = [wrote EXCEPT ![t] = {}]
    /\ ret' = [ret EXCEPT ![t] = IF ok THEN 0 ELSE -EFAULT]
    /\ UNCHANGED <<pc, lbuf, myop, irq_in_wait>>
    /\ UNCHANGED <<openVars, bufVars, hwVars, libVars, interrupt_received, perf_operations, monVars>>

NextThermal ==
    \/ \E temp \in Temperatures, power \in Powers : HwSensor(temp, power)
    \/ run_timers
    \/ \E t \in Threads, ok \in BOOLEAN : ioctl_get_thermal_info(t, ok)

\* the driver as fpga_npu_probe leaves it
SpecThermal == Init /\ [][NextThermal]_vars

\* npu_thermal_monitor about to be called: the timer is pending
InitMonitor ==
    /\ InitHwRegs
    /\ InitHwTimer(TRUE)
    /\ Probed
    /\ InitThreads
    /\ dma_buffers = <<>>
    /\ next_buffer_id = 1
    /\ buffer_id = [b \in Bufs |-> 0]
    /\ buf_size = [b \in Bufs |-> 0]
    /\ ref_count = [b \in Bufs |-> 0]
    /\ mem = [b \in Bufs |-> "none"]
    /\ device_open = TRUE
    /\ opc = [p \in Callers |-> IF p = 1 THEN "returned" ELSE "idle"]
    /\ oret = [p \in Callers |-> 0]

SpecMonitor == InitMonitor /\ [][NextThermal]_vars

C29_Original ==
    [][jiffies' = jiffies + 1 =>
          /\ thermal_info'.temperature_celsius = reg["TEMPERATURE"]
          /\ thermal_info'.power_consumption_mw = reg["POWER"]
          /\ thermal_timer']_vars

\* =================================================== performance counters
MaxCycles == 1           \* carries of the cycle counter (and single cycles) in one run

\* The cycle counter counts while an operation runs.  Its low word is behind
\* REG_PERF_CYCLES and the driver takes the word at REG_PERF_CYCLES + 4 (the
\* offset named REG_PERF_OPS) for its high word.  Between two steps of the
\* software it advances by one cycle, or up to the last value before the low
\* word wraps.
HwPerfCount(far) ==
    /\ Running # {}
    /\ reg["PERF_OPS"] < MaxCycles
    /\ IF far
         THEN /\ reg["PERF_CYCLES"] # U32_MAX
              /\ reg' = [reg EXCEPT !["PERF_CYCLES"] = U32_MAX]
         ELSE /\ reg["PERF_CYCLES"] = U32_MAX \/ reg["PERF_CYCLES"] < MaxCycles
              /\ reg' = [reg EXCEPT
                     !["PERF_CYCLES"] = u32_inc(@),
                     !["PERF_OPS"] = IF reg["PERF_CYCLES"] = U32_MAX THEN @ + 1 ELSE @]
    /\ UNCHANGED <<status, irq, nops, opState, opBuf>>
    /\ UNCHANGED <<openVars, bufVars, thVars, libVars, interrupt_received, perf_operations, monVars>>

\* what the device does when 1 is written to PERF_CTRL: its counters restart
HwPerfReset(r) == [r EXCEPT !["PERF_CTRL"] = 1, !["PERF_CYCLES"] = 0, !["PERF_OPS"] = 0]

\* NPU_IOCTL_RESET_PERF_COUNTERS: under perf_lock the snapshot is zeroed and
\* 1 is written to PERF_CTRL.  The call notes how many operations had been
\* started and whether the hardware was idle.  perf_lock is not obtained once
\* a thread has died holding it.
ioctl_reset_perf_counters(t) ==
    /\ pc[t] = "idle"
    /\ \A u \in Threads : pc[u] \notin {"oops", "perf_read"}
    /\ arg' = [arg EXCEPT ![t] = [call |-> "reset_perf_counters", started |-> nops,
                                    quiet |-> Running = {}]]
    /\ perf_operations' = 0
    /\ perf_cycles' = [hi |-> 0, lo |-> 0]
    /\ reg' = HwPerfReset(reg)
    /\ wrote' = [wrote EXCEPT ![t] = {"PERF_CTRL"}]
    /\ ret' = [ret EXCEPT ![t] = 0]
    /\ UNCHANGED <<pc, lbuf, myop, irq_in_wait>>
    /\ UNCHANGED <<status, irq, nops, opState, opBuf>>
    /\ UNCHANGED <<config, thermal_info, thermal_timer, jiffies, probeVars, profiling_session>>
    /\ UNCHANGED <<openVars, bufVars, libVars, interrupt_received>>

\* a reset of the counters has returned and no operation has run since
AfterPerfReset ==
    \E u \in Threads :
        /\ Returned(u, "reset_perf_counters")
        /\ arg[u].quiet /\ arg[u].started = nops

\* npu_get_performance_counters (NPU_IOCTL_GET_PERF_COUNTERS) takes
\* perf_lock and reads the first of the two words of the cycle count.  The
\* two ioread32 are operands of one | expression, so the compiler chooses
\* which is read first.
npu_get_performance_counters_first(t, high_first) ==
    /\ pc[t] = "idle"
    /\ \A u \in Threads : pc[u] \notin {"oops", "perf_read"}
    /\ arg' = [arg EXCEPT ![t] =
           [call |-> "get_perf_counters", after_reset |-> AfterPerfReset,
            started |-> nops,
            high_first |-> high_first, high_at_low |-> reg["PERF_OPS"],
            cycles |-> IF high_first THEN [hi |-> reg["PERF_OPS"], lo |-> 0]
                                     ELSE [hi |-> 0, lo |-> reg["PERF_CYCLES"]],
            operations |-> perf_operations]]
    /\ wrote' = [wrote EXCEPT ![t] = {}]
    /\ pc' = [pc EXCEPT ![t] = "perf_read"]
    /\ UNCHANGED <<ret, lbuf, myop, irq_in_wait>>
    /\ UNCHANGED <<openVars, bufVars, hwVars, libVars, interrupt_received, perf_operations, monVars>>

\* The other word is read and the count stored in the snapshot, which is
\* copied to perf with memcpy; after the unlock copy_to_user copies it again.
\* perf is the user-space pointer: the kernel's memcpy to it either goes
\* through or faults (oops), with the spinlock held and interrupts off.
npu_get_performance_counters(t, oops) ==
    /\ pc[t] = "perf_read"
    /\ LET cycles == IF arg[t].high_first
                       THEN [arg[t].cycles EXCEPT !.lo = reg["PERF_CYCLES"]]
                       ELSE [arg[t].cycles EXCEPT !.hi = reg["PERF_OPS"]]
       IN /\ perf_cycles' = cycles
          /\ arg' = [arg EXCEPT ![t].cycles = cycles,
                                ![t].operations = perf_operations,
                                ![t].after_reset = @ /\ arg[t].started = nops,
                                ![t].high_at_low =
                                     IF arg[t].high_first THEN reg["PERF_OPS"] ELSE @]
    /\ IF oops THEN /\ pc' = [pc EXCEPT ![t] = "oops"]
                    /\ UNCHANGED ret
               ELSE /\ ret' = [ret EXCEPT ![t] = 0]
                    /\ pc' = [pc EXCEPT ![t] = "idle"]
    /\ UNCHANGED <<lbuf, wrote, myop, irq_in_wait>>
    /\ UNCHANGED <<config, thermal_info, thermal_timer, jiffies, probeVars, profiling_session>>
    /\ UNCHANGED <<openVars, bufVars, hwVars, libVars, interrupt_received, perf_operations>>

NextPerf ==
    \/ \E t \in Threads : ioctl_reset_perf_counters(t)
    \/ \E t \in Threads, high_first \in BOOLEAN :
           npu_get_performance_counters_first(t, high_first)
    \/ \E t \in Threads, oops \in BOOLEAN : npu_get_performance_counters(t, oops)
    \/ \E t \in Threads, inst \in Instructions : npu_execute_instruction(t, inst)
    \/ \E k \in OpIds : HwComplete(k)
    \/ \E far \in BOOLEAN : HwPerfCount(far)
    \/ fpga_npu_interrupt

SpecPerf == Init /\ [][NextPerf]_vars

\* ---- C30 --------------------------------------------------------------
\* C30: a NPU_IOCTL_GET_PERF_COUNTERS that follows a reset of the counters,
\* no operation having run in between, returns 0 and reports cycles = 0 and
\* operations = 0, the reset having zeroed the snapshot.
C30_Original ==
    \A t \in Threads :
        (arg[t].call = "get_perf_counters" /\ arg[t].after_reset
                                            /\ pc[t] # "perf_read") =>
            /\ pc[t] = "idle" /\ ret[t] = 0
            /\ arg[t].cycles = [hi |-> 0, lo |-> 0]
            /\ arg[t].operations = 0

\* ---- C31 --------------------------------------------------------------
\* the interrupt handler runs: it alone takes the interrupt line down
HandlerStep == irq /\ ~irq'

\* C31: a run of the interrupt handler that reads STATUS with DONE clear
\* writes no register, leaves interrupt_received as it is and wakes no
\* waiter; a run that reads DONE set writes the value read back to STATUS
\* (clearing its write-1-to-clear bits), sets interrupt_received and wakes
\* the waiters.
C31_Handler ==
    [][HandlerStep =>
          IF "DONE" \notin status
            THEN /\ status' = status /\ reg' = reg
                 /\ interrupt_received' = interrupt_received
                 /\ irq_in_wait' = irq_in_wait
            ELSE /\ status' = status \ {"DONE", "ERROR"} /\ reg' = reg
                 /\ interrupt_received'
                 /\ \A t \in Threads : InWait(t) => irq_in_wait'[t]]_vars

\* the handler has run on a DONE while a thread was waiting, and the flag and
\* the cleared STATUS show it
C31_Witness ==
    /\ interrupt_received /\ ~irq /\ "DONE" \notin status
    /\ \E t \in Threads : irq_in_wait[t]

\* ---- C32 --------------------------------------------------------------
\* the sleep of thread t's wait ends
WakeStep(t) ==
    /\ pc[t] \in {"wait_sleep", "xfer_sleep"}
    /\ pc'[t] \in {"wait_clear", "xfer_clear"}
\* ... and the value it leaves says that the condition was found true
FoundTrue(t) ==
    IF arg[t].timeout_ms > 0 THEN ret'[t] > 0 ELSE ret'[t] = 0

\* C32: interrupt_received goes from false to true only in a run of the
\* interrupt handler that read DONE; and the sleep of a wait ends on its
\* condition exactly when interrupt_received is set, whatever STATUS shows.
C32_FlagAlone ==
    [][/\ (~interrupt_received /\ interrupt_received')
              => (HandlerStep /\ "DONE" \in status)
       /\ \A t \in Threads :
              WakeStep(t) => (FoundTrue(t) <=> interrupt_received)]_vars

\* a wait has found its condition true while the next completion, not yet
\* handled, shows in STATUS
C32_Witness ==
    \E t \in Threads :
        /\ pc[t] \in {"wait_clear", "xfer_clear"}
        /\ arg[t].timeout_ms > 0 /\ ret[t] > 0
        /\ interrupt_received /\ "DONE" \in status

\* ---- C33 --------------------------------------------------------------
\* C33: the cycle count that a read of the performance counters returns has
\* a high word that was the counter's high word at the moment its low word
\* was read, even when the low word carries into the high word during the
\* read.
C33_Original ==
    \A t \in Threads :
        (Returned(t, "get_perf_counters") /\ ret[t] = 0) =>
            arg[t].cycles.hi = arg[t].high_at_low

\* ======================================================= transfer ranges
\* transfers of every offset, 2^64 - NPU_MIN_BUFFER_SIZE among them
RangeTransfers ==
    {[call |-> "xfer", buffer_id |-> 1, offset |-> o, size |-> NPU_MIN_BUFFER_SIZE,
      flags |-> f, timeout_ms |-> 10, direction |-> 0, user_addr |-> 0] :
        o \in {0, NPU_MIN_BUFFER_SIZE, -NPU_MIN_BUFFER_SIZE},
        f \in {0, NPU_DMA_FLAG_BLOCKING}}

NextRange ==
    \/ \E t \in Threads : npu_dma_transfer_lookup(t, RangeTransfers)
    \/ \E t \in Threads : npu_dma_transfer_setup(t)
    \/ \E t \in Threads : npu_dma_transfer_wake(t)
    \/ \E t \in Threads : npu_dma_transfer_clear(t)
    \/ \E t \in Threads : npu_dma_transfer_out(t)
    \/ \E k \in OpIds : HwComplete(k)
    \/ fpga_npu_interrupt

SpecRange == InitOneBuffer /\ [][NextRange]_vars

\* ---- C34 --------------------------------------------------------------
\* C34: a DMA transfer that has written the DMA registers has its range
\* inside the buffer, offset + size <= buffer size as unbounded integers (an
\* offset of 2^63 or more, held as a negative number, is outside every
\* buffer); a transfer that is outside returns -EINVAL with no register
\* written.
C34_Original ==
    \A t \in Threads :
        (arg[t].call = "xfer" /\ pc[t] \in {"xfer_sleep", "xfer_clear", "xfer_out"}) =>
            IF arg[t].offset >= 0 /\ arg[t].offset + arg[t].size <= buf_size[lbuf[t]]
              THEN wrote[t] # {}
              ELSE wrote[t] = {} /\ ret[t] = -EINVAL

\* ================================================================= probe
\* the error labels of fpga_npu_probe, in the order of the code, and what
\* the statement at each label releases
ErrLabels ==
    <<"err_class_destroy", "err_cdev_del", "err_unregister_chrdev", "err_free_irq",
      "err_free_dma", "err_unmap_data", "err_unmap_control", "err_release_regions",
      "err_disable_device", "err_free_dev">>
LabelReleases ==
    <<"class_create", "cdev_add", "alloc_chrdev_region", "request_irq",
      "dma_buffer", "data_bar", "control_bar", "pci_request_regions",
      "pci_enable_device", "kzalloc">>
IndexIn(seq, x) == CHOOSE i \in 1..Len(seq) : seq[i] = x

goto_err_free_dma(step) == "err_free_dma"
\* where the failure of a step goes: the goto of its error branch (the
\* failed kzalloc returns at once)
goto(step) ==
    CASE step = "kzalloc" -> "failed"
      [] step = "pci_enable_device" -> "err_free_dev"
      [] step = "pci_request_regions" -> "err_disable_device"
      [] step = "control_bar" -> "err_release_regions"
      [] step = "data_bar" -> "err_unmap_control"
      [] step = "dma_mask" -> "err_unmap_data"
      [] step = "dma_buffer" -> "err_unmap_data"
      [] step = "request_irq" -> "err_free_dma"
      [] step = "alloc_chrdev_region" -> "err_free_irq"
      [] step = "cdev_add" -> "err_unregister_chrdev"
      [] step = "class_create" -> "err_cdev_del"
      [] OTHER -> "err_class_destroy"

InProbe == \E i \in 1..Len(ProbeSteps) : ProbeSteps[i] = probe_pc
InUnwind == \E i \in 1..Len(ErrLabels) : ErrLabels[i] = probe_pc

\* one step of fpga_npu_probe succeeds or fails; the two writes of CONTROL
\* that initialise the device do not fail
fpga_npu_probe_step(ok) ==
    /\ InProbe
    /\ ok \/ probe_pc \notin {"reset", "enable"}
    /\ LET i == IndexIn(ProbeSteps, probe_pc) IN
         IF ok
           THEN /\ acquired' = IF probe_pc \in NoResource THEN acquired
                               ELSE Append(acquired, probe_pc)
                /\ probe_pc' = IF i = Len(ProbeSteps) THEN "ok" ELSE ProbeSteps[i + 1]
                /\ reg' = CASE probe_pc = "reset" -> [reg EXCEPT !["CONTROL"] = CTRL_RESET]
                            [] probe_pc = "enable" -> [reg EXCEPT !["CONTROL"] = CTRL_ENABLE]
                            [] OTHER -> reg
           ELSE /\ probe_pc' = goto(probe_pc)
                /\ UNCHANGED <<acquired, reg>>
    /\ UNCHANGED released
    /\ UNCHANGED <<status, irq, nops, opState, opBuf>>
    /\ UNCHANGED <<config, thermal_info, thermal_timer, jiffies, perf_cycles,
                   profiling_session>>
    /\ UNCHANGED <<openVars, bufVars, thVars, libVars, interrupt_received, perf_operations>>

\* the statement at the error label probe is at, and on to the next label
fpga_npu_probe_unwind ==
    /\ InUnwind
    /\ LET i == IndexIn(ErrLabels, probe_pc) IN
         /\ released' = Append(released, LabelReleases[i])
         /\ probe_pc' = IF i = Len(ErrLabels) THEN "failed" ELSE ErrLabels[i + 1]
    /\ UNCHANGED acquired
    /\ UNCHANGED <<config, thermal_info, thermal_timer, jiffies, perf_cycles,
                   profiling_session>>
    /\ UNCHANGED <<openVars, bufVars, hwVars, thVars, libVars, interrupt_received, perf_operations>>

\* the interrupt line is shared: once the handler is registered, and until
\* free_irq, interrupts of the other devices reach it
IrqRegistered ==
    /\ \E i \in 1..Len(acquired) : acquired[i] = "request_irq"
    /\ \A i \in 1..Len(released) : released[i] # "request_irq"

NextProbe ==
    \/ \E ok \in BOOLEAN : fpga_npu_probe_step(ok)
    \/ fpga_npu_probe_unwind
    \/ IrqRegistered /\ SharedIrq
    \/ IrqRegistered /\ fpga_npu_interrupt

\* the device before fpga_npu_probe: nothing acquired, CONTROL not written
InitProbe ==
    /\ probe_pc = ProbeSteps[1]
    /\ acquired = <<>>
    /\ released = <<>>
    /\ dev_mutex = 0
    /\ interrupt_received = FALSE
    /\ perf_operations = 0
    /\ status = {"READY"}
    /\ reg = [r \in RegNames |-> 0]
    /\ irq = FALSE
    /\ nops = 0
    /\ opState = [k \in OpIds |-> "none"]
    /\ opBuf = [k \in OpIds |-> 0]
    /\ InitHwTimer(FALSE)
    /\ InitThreads
    /\ dma_buffers = <<>>
    /\ next_buffer_id = 1
    /\ buffer_id = [b \in Bufs |-> 0]
    /\ buf_size = [b \in Bufs |-> 0]
    /\ ref_count = [b \in Bufs |-> 0]
    /\ mem = [b \in Bufs |-> "none"]
    /\ device_open = FALSE
    /\ opc = [p \in Callers |-> "idle"]
    /\ oret = [p \in Callers |-> 0]

SpecProbe == InitProbe /\ [][NextProbe]_vars

\* ---- C35 --------------------------------------------------------------
RECURSIVE Reverse(_)
Reverse(seq) == IF seq = <<>> THEN <<>> ELSE Append(Reverse(Tail(seq)), Head(seq))

\* C35: what a failing probe releases is, at every moment, the start of the
\* list of what it acquired taken backwards (so each thing is released once,
\* in reverse order, and nothing is released that was not acquired), and the
\* whole of that list when probe returns the error; when the mapping of a
\* BAR failed, neither the DMA buffer nor the interrupt nor the character
\* device was acquired.
C35_Unwind ==
    /\ Len(released) <= Len(acquired)
    /\ released = SubSeq(Reverse(acquired), 1, Len(released))
    /\ probe_pc = "failed" => released = Reverse(acquired)
    /\ (InProbe \/ probe_pc = "ok") => released = <<>>
    /\ (~InProbe /\ \A i \in 1..Len(acquired) : acquired[i] # "data_bar") =>
           \A i \in 1..Len(acquired) :
               acquired[i] \notin {"dma_buffer", "request_irq", "alloc_chrdev_region",
                                   "cdev_add", "class_create", "device_create"}

\* probe has failed at its last step and released all it had acquired
C35_Witness ==
    /\ probe_pc = "failed"
    /\ Len(acquired) = Len(Resources(ProbeSteps)) - 1
    /\ Len(released) = Len(acquired)

\* ---- C36 --------------------------------------------------------------
\* C36: no freed buffer leaks: a buffer that has been removed from the
\* registry and whose last reference has been dropped has had its memory
\* released (the transfer that drops the last reference after the free
\* releases it).
C36_Original ==
    \A b \in Bufs :
        (mem[b] # "none" /\ b \notin LiveBufs /\ ref_count[b] = 0)
            => mem[b] = "released"

\* ---- C37 --------------------------------------------------------------
\* the step in which thread t leaves npu_free_dma_buffer after its put
PutStep(t) == pc[t] = "free_put" /\ pc'[t] = "idle"

\* C37: in every interleaving of allocations, frees and transfers no
\* reference count goes below zero and the memory of a buffer is released at
\* most once: a put releases only memory that is live, released memory stays
\* released, and a free of an id whose buffer was already freed returns
\* -ENOENT and releases nothing.
C37_ReleaseOnce ==
    [][/\ \A b \in Bufs :
            /\ ref_count'[b] >= 0
            /\ mem[b] = "released" => mem'[b] = "released"
       /\ \A t \in Threads :
            /\ PutStep(t) => mem[lbuf[t]] = "live"
            /\ (FreeStep(t) /\ Unknown(arg'[t].buffer_id))
                   => (ret'[t] = -ENOENT /\ mem' = mem /\ pc'[t] = "idle")
      ]_vars

\* a buffer that a transfer had used was released once, at count zero, and a
\* second free of its id has returned -ENOENT
C37_Witness ==
    \E t \in Threads, b \in Bufs :
        /\ Returned(t, "free") /\ ret[t] = -ENOENT
        /\ arg[t].buffer_id = buffer_id[b]
        /\ mem[b] = "released" /\ ref_count[b] = 0
        /\ \E k \in OpIds : opBuf[k] = b /\ opState[k] # "none"

\* ---- C38 --------------------------------------------------------------
\* thread t's last call was a wait for completion (NPU_IOCTL_WAIT_COMPLETION
\* or a blocking transfer) and it returned success
WaitSucceeded(t) ==
    /\ Returned(t, "wait") \/ (Returned(t, "xfer") /\ Blocking(arg[t]))
    /\ ret[t] = 0

\* C38: a completion interrupt satisfies at most one wait: when one
\* operation only has been started, so that the device has raised at most one
\* completion interrupt, at most one thread's wait has returned success.
C38_Original ==
    nops = 1 => Cardinality({t \in Threads : WaitSucceeded(t)}) <= 1

\* ============================================================== sessions
\* a caller holds the open file of the device; ioctls are issued on it, and
\* fpga_npu_release runs when the file is closed, after its last ioctl has
\* returned
SessionOpen == \E p \in Callers : opc[p] = "returned" /\ oret[p] = 0
NoIoctlRunning == \A t \in Threads : pc[t] = "idle"

NextSession ==
    \/ \E p \in Callers : fpga_npu_open_call(p)
    \/ \E p \in Callers : fpga_npu_open_lock(p)
    \/ \E p \in Callers : fpga_npu_open_interrupted(p)
    \/ \E p \in Callers : fpga_npu_open_body(p)
    \/ \E p \in Callers : NoIoctlRunning /\ fpga_npu_release_lock(p)
    \/ \E p \in Callers : fpga_npu_release_body(p)
    \/ \E t \in Threads, size \in AllocSizes, got \in BOOLEAN :
           SessionOpen /\ npu_alloc_dma_buffer(t, size, got)
    \/ \E t \in Threads : SessionOpen /\ npu_free_dma_buffer_find(t)
    \/ \E t \in Threads : npu_free_dma_buffer_put(t)

SpecSession == InitOpen /\ [][NextSession]_vars

\* ---- C39 --------------------------------------------------------------
\* C39: when the session has been released no buffer that was allocated
\* during it is left: while the device is not open the registry is empty and
\* no buffer's memory is still allocated.
C39_Original ==
    ~device_open => (dma_buffers = <<>> /\ \A b \in Bufs : mem[b] # "live")

\* ============================================================= profiling
\* the handles the callers pass: NULL and two library contexts
ProfHandles == {0, 1, 2}
MaxIterations == 1

\* ioctl(NPU_IOCTL_RESET_PERF_COUNTERS) and ioctl(NPU_IOCTL_GET_PERF_COUNTERS)
\* as the library sees them: each succeeds or returns a negative value, which
\* the library turns into NPU_ERROR_DEVICE
npu_reset_performance_counters_ret(ok) == IF ok THEN NPU_SUCCESS ELSE NPU_ERROR_DEVICE
npu_get_comprehensive_perf_counters_ret(ok) == IF ok THEN NPU_SUCCESS ELSE NPU_ERROR_DEVICE

\* the test of profiling_session.active at the head of npu_start_profiling
session_active(session) == session.active

\* npu_start_profiling: the value it returns
npu_start_profiling_ret(h, reset_ok, get_ok) ==
    IF h = 0 THEN NPU_ERROR_INVALID
    ELSE IF session_active(profiling_session) THEN NPU_ERROR_DEVICE
    ELSE IF npu_reset_performance_counters_ret(reset_ok) # NPU_SUCCESS
      THEN npu_reset_performance_counters_ret(reset_ok)
    ELSE npu_get_comprehensive_perf_counters_ret(get_ok)

\* npu_start_profiling: what it does to the session, and what the two ioctls
\* it issues do in the driver (the reset zeroes the snapshot and writes 1 to
\* PERF_CTRL, the read stores the cycle count in the snapshot)
npu_start_profiling_do(h, reset_ok, get_ok) ==
    /\ profiling_session' =
           IF npu_start_profiling_ret(h, reset_ok, get_ok) = NPU_SUCCESS
             THEN [active |-> TRUE, handle |-> h]
             ELSE profiling_session
    /\ IF h # 0 /\ ~session_active(profiling_session) /\ reset_ok
         THEN /\ perf_operations' = 0
              /\ reg' = HwPerfReset(reg)
              /\ perf_cycles' = [hi |-> 0, lo |-> 0]
         ELSE UNCHANGED <<perf_operations, reg, perf_cycles>>

\* npu_stop_profiling: the value it returns (profile: whether the caller
\* passes a profile to fill)
npu_stop_profiling_ret(h, profile, get_ok) ==
    IF h = 0 \/ ~profile THEN NPU_ERROR_INVALID
    ELSE IF ~profiling_session.active \/ profiling_session.handle # h THEN NPU_ERROR_DEVICE
    ELSE npu_get_comprehensive_perf_counters_ret(get_ok)

npu_stop_profiling_do(h, profile, get_ok) ==
    /\ profiling_session' =
           IF npu_stop_profiling_ret(h, profile, get_ok) = NPU_SUCCESS
             THEN [active |-> FALSE, handle |-> 0]
             ELSE profiling_session
    /\ IF h # 0 /\ profile /\ profiling_session.active
            /\ profiling_session.handle = h /\ get_ok
         THEN perf_cycles' = [hi |-> reg["PERF_OPS"], lo |-> reg["PERF_CYCLES"]]
         ELSE UNCHANGED perf_cycles

ProfFrame ==
    /\ UNCHANGED <<lbuf, wrote, irq_in_wait>>
    /\ UNCHANGED <<config, thermal_info, thermal_timer, jiffies, probeVars>>
    /\ UNCHANGED <<openVars, bufVars, libVars, interrupt_received>>

npu_start_profiling(t, h, reset_ok, get_ok) ==
    /\ pc[t] = "idle"
    /\ arg' = [arg EXCEPT ![t] = [call |-> "npu_start_profiling", handle |-> h]]
    /\ npu_start_profiling_do(h, reset_ok, get_ok)
    /\ ret' = [ret EXCEPT ![t] = npu_start_profiling_ret(h, reset_ok, get_ok)]
    /\ UNCHANGED <<pc, myop>>
    /\ UNCHANGED <<status, irq, nops, opState, opBuf>>
    /\ ProfFrame

npu_stop_profiling(t, h, profile, get_ok) ==
    /\ pc[t] = "idle"
    /\ arg' = [arg EXCEPT ![t] = [call |-> "npu_stop_profiling", handle |-> h]]
    /\ npu_stop_profiling_do(h, profile, get_ok)
    /\ ret' = [ret EXCEPT ![t] = npu_stop_profiling_ret(h, profile, get_ok)]
    /\ UNCHANGED <<pc, myop>>
    /\ UNCHANGED <<status, irq, nops, opState, opBuf, reg, perf_operations>>
    /\ ProfFrame

\* npu_benchmark_operation up to the loop: the checks of the arguments and
\* npu_start_profiling
npu_benchmark_operation(t, h, iterations, profile, reset_ok, get_ok) ==
    /\ pc[t] = "idle"
    /\ arg' = [arg EXCEPT ![t] = [call |-> "npu_benchmark_operation", handle |-> h,
                                    iterations |-> iterations, i |-> 0]]
    /\ IF h = 0 \/ ~profile \/ iterations = 0
         THEN /\ ret' = [ret EXCEPT ![t] = NPU_ERROR_INVALID]
              /\ UNCHANGED <<pc, profiling_session, perf_operations, reg, perf_cycles>>
         ELSE /\ npu_start_profiling_do(h, reset_ok, get_ok)
              /\ ret' = [ret EXCEPT ![t] = npu_start_profiling_ret(h, reset_ok, get_ok)]
              /\ pc' = [pc EXCEPT ![t] =
                     IF npu_start_profiling_ret(h, reset_ok, get_ok) = NPU_SUCCESS
                       THEN "bench_exec" ELSE "idle"]
    /\ UNCHANGED myop
    /\ UNCHANGED <<status, irq, nops, opState, opBuf>>
    /\ ProfFrame

\* the loop's npu_execute_instruction: write() of the instruction, which the
\* driver's fpga_npu_write answers by starting it; when write() does not
\* return the instruction's size the session is marked inactive
npu_benchmark_operation_exec(t, write_ok) ==
    /\ pc[t] = "bench_exec"
    /\ nops < MaxOps
    /\ IF write_ok
         THEN /\ reg' = [reg EXCEPT
                     !["DATA_ADDR"] = u32(dma_handle(0)),
                     !["DATA_SIZE"] = u32(sizeof_npu_instruction_t),
                     !["CONTROL"] = CTRL_ENABLE + CTRL_START]
              /\ HwStart(0)
              /\ myop' = [myop EXCEPT ![t] = nops + 1]
              /\ pc' = [pc EXCEPT ![t] = "bench_wait"]
              /\ ret' = [ret EXCEPT ![t] = NPU_SUCCESS]
              /\ UNCHANGED profiling_session
         ELSE /\ profiling_session' = [profiling_session EXCEPT !.active = FALSE]
              /\ ret' = [ret EXCEPT ![t] = NPU_ERROR_DEVICE]
              /\ pc' = [pc EXCEPT ![t] = "idle"]
              /\ UNCHANGED <<reg, status, nops, opState, opBuf, myop>>
    /\ UNCHANGED <<arg, irq, perf_operations, perf_cycles>>
    /\ ProfFrame

\* the loop's npu_wait_completion, and what follows it: the return on its
\* failure, the next iteration, or npu_stop_profiling after the last one
npu_benchmark_operation_wait(t, get_ok) ==
    /\ pc[t] = "bench_wait"
    /\ IF npu_wait_completion_ret # NPU_SUCCESS
         THEN /\ profiling_session' = [profiling_session EXCEPT !.active = FALSE]
              /\ ret' = [ret EXCEPT ![t] = npu_wait_completion_ret]
              /\ pc' = [pc EXCEPT ![t] = "idle"]
              /\ UNCHANGED <<arg, perf_cycles>>
         ELSE IF arg[t].i + 1 < arg[t].iterations
         THEN /\ arg' = [arg EXCEPT ![t].i = @ + 1]
              /\ pc' = [pc EXCEPT ![t] = "bench_exec"]
              /\ UNCHANGED <<ret, profiling_session, perf_cycles>>
         ELSE /\ npu_stop_profiling_do(arg[t].handle, TRUE, get_ok)
              /\ ret' = [ret EXCEPT ![t] = npu_stop_profiling_ret(arg[t].handle, TRUE, get_ok)]
              /\ pc' = [pc EXCEPT ![t] = "idle"]
              /\ UNCHANGED arg
    /\ UNCHANGED myop
    /\ UNCHANGED <<status, irq, nops, opState, opBuf, reg, perf_operations>>
    /\ ProfFrame

NextProf ==
    \/ \E t \in Threads, h \in ProfHandles, reset_ok \in BOOLEAN, get_ok \in BOOLEAN :
           npu_start_profiling(t, h, reset_ok, get_ok)
    \/ \E t \in Threads, h \in ProfHandles, profile \in BOOLEAN, get_ok \in BOOLEAN :
           npu_stop_profiling(t, h, profile, get_ok)
    \/ \E t \in Threads, h \in ProfHandles, iterations \in 0..MaxIterations,
          profile \in BOOLEAN, reset_ok \in BOOLEAN, get_ok \in BOOLEAN :
           npu_benchmark_operation(t, h, iterations, profile, reset_ok, get_ok)
    \/ \E t \in Threads, write_ok \in BOOLEAN : npu_benchmark_operation_exec(t, write_ok)
    \/ \E t \in Threads, get_ok \in BOOLEAN : npu_benchmark_operation_wait(t, get_ok)

SpecProf == Init /\ [][NextProf]_vars

\* ---- C40 --------------------------------------------------------------
\* thread t calls, and returns from, the library function `call` in this step
ProfCall(t, call) ==
    /\ pc[t] = "idle" /\ pc'[t] = "idle"
    /\ arg'[t].call = call
    /\ (arg'[t] # arg[t] \/ ret'[t] # ret[t])
\* npu_benchmark_operation returns to thread t in this step
BenchmarkReturns(t) ==
    \/ ProfCall(t, "npu_benchmark_operation")
    \/ pc[t] \in {"bench_exec", "bench_wait"} /\ pc'[t] = "idle"

\* C40: at most one profiling session is active.  A start while a session is
\* active, and a stop with no active session or with another handle, return
\* an error and leave the session as it was; a successful stop ends the
\* session; and when npu_benchmark_operation has returned, with success or
\* with any error, no session is active.
C40_Original ==
    [][\A t \in Threads :
          /\ (ProfCall(t, "npu_start_profiling") /\ profiling_session.active)
                 => (ret'[t] # NPU_SUCCESS /\ profiling_session' = profiling_session)
          /\ (ProfCall(t, "npu_stop_profiling")
                 /\ (~profiling_session.active
                        \/ profiling_session.handle # arg'[t].handle))
                 => (ret'[t] # NPU_SUCCESS /\ profiling_session' = profiling_session)
          /\ (ProfCall(t, "npu_stop_profiling") /\ ret'[t] = NPU_SUCCESS)
                 => ~profiling_session'.active
          /\ BenchmarkReturns(t) => ~profiling_session'.active
      ]_vars

====
